---- MODULE Spec2Model ----
(***************************************************************************)
(* Model of the GDELT sampling subsystem: FileIndex (sampling/indexer.py), *)
(* ReproducibleRNG (sampling/rng.py) and the samplers of                   *)
(* sampling/samplers.py.  Three specifications share the module:           *)
(*   SpecIndex      FileIndex construction, lookup, group_indices_by_file  *)
(*                  and IndexedSampler.get_random_sample                   *)
(*   SpecReservoir  FilteredSampler.get_random_sample (reservoir scan)     *)
(*   SpecExpr       FilteredSampler filter validation / compilation / scan *)
(* Shard indices and row offsets are 0-based as in the Python code; TLA+   *)
(* sequences are 1-based, so a Python a[j] is written a[j + 1].            *)
(***************************************************************************)
EXTENDS Integers, Sequences, FiniteSets, TLC

VARIABLES
    \* ---- FileIndex / IndexedSampler ----
    fragments,       \* row count of each parquet fragment, in sorted path order
    ipc,             \* position of the FileIndex / IndexedSampler code
    starts,          \* FileIndex.starts
    stops,           \* FileIndex.stops
    counts,          \* FileIndex.counts
    cumulative,      \* local `cumulative` of _build_arrow_metadata
    total_rows,      \* FileIndex.total_rows
    lk,              \* last lookup(g): <<g, j, rel>>, or <<>>
    global_indices,  \* argument of group_indices_by_file
    gsorted,         \* np.sort(global_indices)
    gi,              \* number of sorted indices already merged
    gj,              \* shard pointer j of group_indices_by_file
    result,          \* dict file -> [relative rows], as <<keys in insertion order, lists>>
    caller,          \* who called group_indices_by_file: "api" or "sampler"
    n_arg,           \* argument n of IndexedSampler.get_random_sample
    rng_calls,       \* number of draws made from the RNG
    reads,           \* shards read by pd.read_parquet, in order
    sampled,         \* list `sampled` of get_random_sample: one row list per file
    output,          \* rows of the returned DataFrame, each <<shard, relative row>>
    ierr,            \* exception raised, or "none"
    \* ---- FilteredSampler.get_random_sample ----
    batches,         \* filtered record batches of the scan: batch sizes, in scan order
    n_req,           \* argument n
    rpc,             \* position of the code
    bi,              \* batches consumed so far
    ri,              \* rows of the current batch processed so far
    reservoir,       \* list `reservoir`: rows, each <<batch, row in batch>>
    total_seen,      \* local `total_seen`
    draws,           \* number of rng.randint / rng.choice calls so far
    sample_out,      \* rows of the returned DataFrame
    rerr,            \* exception raised, or "none"
    \* ---- FilteredSampler filter expression ----
    request,         \* --filter of the sampling command, parsed as JSON; <<>> if none
    via,             \* "cli": sampler built by run_sampling_cmd; "api": by a Python caller
    filter_dict,     \* self.filter_dict
    columns,         \* `columns` argument, then self.columns
    needed,          \* local `needed` of a sampling call: the scan's columns and schema
    opened,          \* TRUE once _dataset has opened the parquet dataset
    api,             \* sampling call in progress: "random", "stratified", "filter", or "none"
    out_cols,        \* columns of the returned table
    fpc,             \* position of the code
    expr,            \* pyarrow expression built by _build_expression
    matched,         \* rows the scanner lets through
    ferr,            \* exception raised, or "none"
    \* ---- FilteredSampler.get_stratified_sample ----
    sbatches,        \* filtered record batches: the stratification value of each row
    n_per_group,     \* argument n_per_group
    spc,             \* position of the code
    sbi,             \* batches consumed so far
    sri,             \* rows of the current batch processed so far
    reservoirs,      \* dict `reservoirs`: group key -> rows
    group_counts,    \* dict `counts`: group key -> rows seen
    sdraws,          \* number of rng.randint calls so far
    strat_out,       \* rows of the returned DataFrame
    \* ---- DailySampler.get_daily_samples ----
    day_shards,      \* the parquet files of the folder, in path order
    samples_per_day, \* argument samples_per_day
    dpc,             \* position of the code
    run,             \* 1: first run of the program; 2: a second run, same seed
    glob_order,      \* order in which glob yields the files in this run
    fi,              \* files processed so far
    daily,           \* dict `daily`: day -> list of samples
    rng_log,         \* generator calls of the first run, once it has ended
    rng_used,        \* generator calls of this run so far
    first_out,       \* rows the first run returned
    daily_out,       \* rows of the returned DataFrame
    derr,            \* exception raised, or "none"
    \* ---- download_gdelt_files ----
    urls,            \* argument `urls`, each URL as the file name it ends with
    retries,         \* config["scraping"]["retries"]
    disk,            \* the download directory: file name -> state of the file
    wpc,             \* position of the code
    pass,            \* 1: first run of the pipeline; 2: a second run
    ui,              \* URLs of the list done with
    attempt,         \* loop variable `attempt`
    success,         \* local `success`
    skipped,         \* local `skipped`
    failed,          \* local `failed`
    events           \* what this run did, URL by URL: skips and attempts in order

idxVars == <<fragments, ipc, starts, stops, counts, cumulative, total_rows, lk,
             global_indices, gsorted, gi, gj, result, caller, n_arg, rng_calls,
             reads, sampled, output, ierr>>
resVars == <<batches, n_req, rpc, bi, ri, reservoir, total_seen, draws,
             sample_out, rerr>>
exprVars == <<request, via, filter_dict, columns, needed, opened, api, out_cols,
              fpc, expr, matched, ferr>>
stratVars == <<sbatches, n_per_group, spc, sbi, sri, reservoirs, group_counts,
               sdraws, strat_out>>
dayVars == <<day_shards, samples_per_day, dpc, run, glob_order, fi, daily,
             rng_log, rng_used, first_out, daily_out, derr>>
scrapeVars == <<urls, retries, disk, wpc, pass, ui, attempt, success, skipped,
                failed, events>>
vars == <<idxVars, resVars, exprVars, stratVars, dayVars, scrapeVars>>

(***************************************************************************)
(* Bounds of the model.                                                    *)
(***************************************************************************)
MaxShards == 3      \* most parquet fragments in a folder
MaxTotal == 4       \* most rows in a generated dataset
MaxIdx == 3         \* longest index array handed to group_indices_by_file
MaxBatches == 3     \* most record batches a filtered scan yields
MaxStream == 5      \* most rows a filtered scan yields
MaxN == 3           \* largest sample size asked of the reservoir
MaxVal == 2         \* column values are 0..MaxVal
MaxGroupRows == 3   \* most rows a stratified scan yields
MaxPerGroup == 2    \* largest n_per_group asked of the stratified sampler
MaxDayShards == 2   \* most parquet files of a daily-sampled folder
MaxDayRows == 3     \* most rows of those files together
MaxPerDay == 2      \* largest samples_per_day asked of the daily sampler
MaxUrls == 3        \* most URLs handed to download_gdelt_files
MaxRetries == 2     \* largest configured number of attempts per URL

(***************************************************************************)
(* Generic helpers.                                                        *)
(***************************************************************************)
RECURSIVE SumSeq(_)
SumSeq(s) == IF s = <<>> THEN 0 ELSE Head(s) + SumSeq(Tail(s))

RECURSIVE Concat(_)
Concat(ss) == IF ss = <<>> THEN <<>> ELSE Head(ss) \o Concat(Tail(ss))

Range(s) == {s[i] : i \in DOMAIN s}

SeqsUpTo(S, n) == UNION {[1..l -> S] : l \in 0..n}

IsSortedAsc(s) == \A i \in 1..(Len(s) - 1) : s[i] <= s[i + 1]

Occurrences(s, x) == Cardinality({i \in DOMAIN s : s[i] = x})

(***************************************************************************)
(* State of the other components while one component runs.                 *)
(***************************************************************************)
IdxIdle ==
    /\ fragments = <<>> /\ ipc = "idle" /\ starts = <<>> /\ stops = <<>>
    /\ counts = <<>> /\ cumulative = 0 /\ total_rows = 0 /\ lk = <<>>
    /\ global_indices = <<>> /\ gsorted = <<>> /\ gi = 0 /\ gj = 0
    /\ result = <<  <<>>, <<>>  >> /\ caller = "none" /\ n_arg = 0
    /\ rng_calls = 0 /\ reads = <<>> /\ sampled = <<>> /\ output = <<>>
    /\ ierr = "none"

ResIdle ==
    /\ batches = <<>> /\ n_req = 0 /\ rpc = "idle" /\ bi = 0 /\ ri = 0
    /\ reservoir = <<>> /\ total_seen = 0 /\ draws = 0 /\ sample_out = <<>>
    /\ rerr = "none"

ExprIdle ==
    /\ request = <<>> /\ via = "none" /\ filter_dict = <<>> /\ columns = {}
    /\ needed = {} /\ opened = FALSE /\ api = "none" /\ out_cols = {}
    /\ fpc = "idle" /\ expr = <<>> /\ matched = {}
    /\ ferr = "none"

StratIdle ==
    /\ sbatches = <<>> /\ n_per_group = 0 /\ spc = "idle" /\ sbi = 0 /\ sri = 0
    /\ reservoirs = <<>> /\ group_counts = <<>> /\ sdraws = 0
    /\ strat_out = <<>>

DayIdle ==
    /\ day_shards = <<>> /\ samples_per_day = 0 /\ dpc = "idle" /\ run = 0
    /\ glob_order = <<>> /\ fi = 0 /\ daily = <<>> /\ rng_log = <<>>
    /\ rng_used = <<>> /\ first_out = <<>> /\ daily_out = <<>>
    /\ derr = "none"

ScrapeIdle ==
    /\ urls = <<>> /\ retries = 0 /\ disk = <<>> /\ wpc = "idle" /\ pass = 0
    /\ ui = 0 /\ attempt = 0 /\ success = 0 /\ skipped = 0 /\ failed = <<>>
    /\ events = <<>>

(***************************************************************************)
(* FileIndex (sampling/indexer.py).                                        *)
(***************************************************************************)
\* The spec's scenario: three shards with row counts [10, 0, 5].
ScenarioCounts == <<10, 0, 5>>

\* Row counts of the fragments of a folder: any list of at most MaxShards
\* fragments holding at most MaxTotal rows together, and the scenario above.
FragmentLists ==
    {s \in SeqsUpTo(0..MaxTotal, MaxShards) : SumSeq(s) <= MaxTotal}
        \cup {ScenarioCounts}

IdxInit ==
    /\ fragments \in FragmentLists
    /\ ipc = "resolve"
    /\ starts = <<>> /\ stops = <<>> /\ counts = <<>>
    /\ cumulative = 0 /\ total_rows = 0 /\ lk = <<>>
    /\ global_indices = <<>> /\ gsorted = <<>> /\ gi = 0 /\ gj = 0
    /\ result = <<  <<>>, <<>>  >> /\ caller = "none" /\ n_arg = 0
    /\ rng_calls = 0 /\ reads = <<>> /\ sampled = <<>> /\ output = <<>>
    /\ ierr = "none"

\* FileIndex._resolve_paths: an empty file list raises FileNotFoundError.
ResolvePaths ==
    /\ ipc = "resolve"
    /\ IF fragments = <<>>
         THEN ipc' = "nofiles" /\ ierr' = "FileNotFoundError"
         ELSE ipc' = "build" /\ ierr' = ierr
    /\ UNCHANGED <<fragments, starts, stops, counts, cumulative, total_rows, lk,
                   global_indices, gsorted, gi, gj, result, caller, n_arg,
                   rng_calls, reads, sampled, output>>
    /\ UNCHANGED <<resVars, exprVars, stratVars, dayVars, scrapeVars>>

\* Mutant: the stop offset is recorded before the fragment's rows are added.
BuildFragmentStopEarly(nrows) ==
    /\ starts' = Append(starts, cumulative)
    /\ cumulative' = cumulative + nrows
    /\ stops' = Append(stops, cumulative)
    /\ counts' = Append(counts, nrows)

\* Mutant: `cumulative = nrows` instead of `cumulative += nrows`.
BuildFragmentNoAccumulate(nrows) ==
    /\ starts' = Append(starts, cumulative)
    /\ cumulative' = nrows
    /\ stops' = Append(stops, nrows)
    /\ counts' = Append(counts, nrows)

\* One iteration of the loop over dataset.get_fragments().
BuildFragmentAs(nrows) ==
    /\ starts' = Append(starts, cumulative)
    /\ cumulative' = cumulative + nrows
    /\ stops' = Append(stops, cumulative + nrows)
    /\ counts' = Append(counts, nrows)

BuildFragment ==
    /\ ipc = "build"
    /\ Len(starts) < Len(fragments)
    /\ BuildFragmentAs(fragments[Len(starts) + 1])
    /\ UNCHANGED <<fragments, ipc, total_rows, lk, global_indices, gsorted, gi,
                   gj, result, caller, n_arg, rng_calls, reads, sampled, output,
                   ierr>>
    /\ UNCHANGED <<resVars, exprVars, stratVars, dayVars, scrapeVars>>

\* End of _build_arrow_metadata: self.total_rows = cumulative.
BuildFinish ==
    /\ ipc = "build"
    /\ Len(starts) = Len(fragments)
    /\ total_rows' = cumulative
    /\ ipc' = "ready"
    /\ UNCHANGED <<fragments, starts, stops, counts, cumulative, lk,
                   global_indices, gsorted, gi, gj, result, caller, n_arg,
                   rng_calls, reads, sampled, output, ierr>>
    /\ UNCHANGED <<resVars, exprVars, stratVars, dayVars, scrapeVars>>

\* bisect.bisect_right(a, x): the insertion point after any entries equal to x.
RECURSIVE BisectLoop(_, _, _, _)
BisectLoop(a, x, lo, hi) ==
    IF lo < hi
      THEN LET mid == (lo + hi) \div 2
           IN IF x < a[mid + 1]
                THEN BisectLoop(a, x, lo, mid)
                ELSE BisectLoop(a, x, mid + 1, hi)
      ELSE lo

\* Mutant: bisect_left, the insertion point before any entries equal to x.
RECURSIVE BisectLeftLoop(_, _, _, _)
BisectLeftLoop(a, x, lo, hi) ==
    IF lo < hi
      THEN LET mid == (lo + hi) \div 2
           IN IF a[mid + 1] < x
                THEN BisectLeftLoop(a, x, mid + 1, hi)
                ELSE BisectLeftLoop(a, x, lo, mid)
      ELSE lo

BisectLeft(a, x) == BisectLeftLoop(a, x, 0, Len(a))

BisectRight(a, x) == BisectLoop(a, x, 0, Len(a))

\* Python list indexing a[j]: a negative j counts from the end.
PyIndex(a, j) == IF j < 0 THEN a[Len(a) + j + 1] ELSE a[j + 1]

\* FileIndex.lookup(g) -> (j, rel)
LookupOf(g) ==
    LET j == BisectRight(starts, g) - 1
    IN <<j, g - PyIndex(starts, j)>>

Lookup ==
    /\ ipc = "ready"
    /\ \E g \in 0..(total_rows - 1) :
         lk' = <<g>> \o LookupOf(g)
    /\ ipc' = "looked"
    /\ UNCHANGED <<fragments, starts, stops, counts, cumulative, total_rows,
                   global_indices, gsorted, gi, gj, result, caller, n_arg,
                   rng_calls, reads, sampled, output, ierr>>
    /\ UNCHANGED <<resVars, exprVars, stratVars, dayVars, scrapeVars>>

\* np.sort: ascending order, duplicates kept (insertion sort).
RECURSIVE InsertSorted(_, _)
InsertSorted(x, s) ==
    IF s = <<>> THEN <<x>>
    ELSE IF x <= Head(s) THEN <<x>> \o s
    ELSE <<Head(s)>> \o InsertSorted(x, Tail(s))

\* Mutant: the indices are grouped in the order they were drawn.
NpSortOmitted(s) == s

\* np.sort(global_indices)
RECURSIVE NpSort(_)
NpSort(s) == IF s = <<>> THEN <<>> ELSE InsertSorted(Head(s), NpSort(Tail(s)))

\* Mutant: `while g > self.stops[j]`.
RECURSIVE AdvancePointerStrict(_, _)
AdvancePointerStrict(j, g) ==
    IF j >= Len(stops) THEN Len(stops)
    ELSE IF g > stops[j + 1] THEN AdvancePointerStrict(j + 1, g)
    ELSE j

\* `while g >= self.stops[j]: j += 1`; Len(stops) stands for the IndexError
\* Python raises when j runs past the last shard.
RECURSIVE AdvancePointer(_, _)
AdvancePointer(j, g) ==
    IF j >= Len(stops) THEN Len(stops)
    ELSE IF g >= stops[j + 1] THEN AdvancePointer(j + 1, g)
    ELSE j

\* result.setdefault(file_path, []).append(rel)
SetDefaultAppend(res, j, rel) ==
    LET keys == res[1]
        lists == res[2]
    IN IF \E p \in DOMAIN keys : keys[p] = j
         THEN LET p == CHOOSE q \in DOMAIN keys : keys[q] = j
              IN <<keys, [lists EXCEPT ![p] = Append(@, rel)]>>
         ELSE <<Append(keys, j), Append(lists, <<rel>>)>>

\* Entry of group_indices_by_file: sort the indices, empty result, j = 0.
GroupEnter(indices, who) ==
    /\ global_indices' = indices
    /\ gsorted' = NpSort(indices)
    /\ gi' = 0
    /\ gj' = 0
    /\ result' = <<  <<>>, <<>>  >>
    /\ caller' = who
    /\ ipc' = "grouping"

\* FileIndex.group_indices_by_file(global_indices), called directly with any
\* array of at most MaxIdx in-range indices, in any order, repeats allowed
\* (on the generated datasets; the 15-row scenario is only looked up).
GroupCall ==
    /\ ipc = "ready"
    /\ total_rows <= MaxTotal
    /\ \E indices \in SeqsUpTo(0..(total_rows - 1), MaxIdx) :
         GroupEnter(indices, "api")
    /\ UNCHANGED <<fragments, starts, stops, counts, cumulative, total_rows, lk,
                   n_arg, rng_calls, reads, sampled, output, ierr>>
    /\ UNCHANGED <<resVars, exprVars, stratVars, dayVars, scrapeVars>>

\* One iteration of `for g in global_indices`.
GroupStep ==
    /\ ipc = "grouping"
    /\ gi < Len(gsorted)
    /\ LET g == gsorted[gi + 1]
           j == AdvancePointer(gj, g)
       IN IF j >= Len(stops)
            THEN /\ ipc' = "raised"
                 /\ ierr' = "IndexError"
                 /\ UNCHANGED <<gi, result>>
                 /\ gj' = j
            ELSE /\ gj' = j
                 /\ result' = SetDefaultAppend(result, j, g - starts[j + 1])
                 /\ gi' = gi + 1
                 /\ UNCHANGED <<ipc, ierr>>
    /\ UNCHANGED <<fragments, starts, stops, counts, cumulative, total_rows, lk,
                   global_indices, gsorted, caller, n_arg, rng_calls, reads,
                   sampled, output>>
    /\ UNCHANGED <<resVars, exprVars, stratVars, dayVars, scrapeVars>>

\* `return result`: back to the caller.
GroupReturn ==
    /\ ipc = "grouping"
    /\ gi = Len(gsorted)
    /\ ipc' = IF caller = "sampler" THEN "loading" ELSE "grouped"
    /\ UNCHANGED <<fragments, starts, stops, counts, cumulative, total_rows, lk,
                   global_indices, gsorted, gi, gj, result, caller, n_arg,
                   rng_calls, reads, sampled, output, ierr>>
    /\ UNCHANGED <<resVars, exprVars, stratVars, dayVars, scrapeVars>>

(***************************************************************************)
(* ReproducibleRNG (sampling/rng.py).  A draw is a choice among the values *)
(* the generator can return.                                               *)
(***************************************************************************)
\* Mutant: replace=True, the same position may be drawn twice.
ChoiceWithReplacement(n, size) == [1..size -> 0..(n - 1)]

\* rng.choice(n, size, replace=False): `size` distinct values of 0..n-1, in
\* any order.
Choice(n, size) ==
    {s \in [1..size -> 0..(n - 1)] :
        \A a, b \in 1..size : a # b => s[a] # s[b]}

\* rng.randint(low, high) = Generator.integers(low, high + 1), whose upper
\* end is exclusive: the values low..high.
Integers(low, high) == low..(high - 1)

RandInt(low, high) == Integers(low, high + 1)

(***************************************************************************)
(* IndexedSampler.get_random_sample (sampling/samplers.py).                *)
(***************************************************************************)
SampleCall ==
    /\ ipc = "ready"
    /\ total_rows <= MaxTotal
    /\ \E n \in 0..(total_rows + 1) :
         /\ n_arg' = n
         /\ IF n > total_rows
              THEN /\ ipc' = "raised"
                   /\ ierr' = "SampleTooLarge"
                   /\ UNCHANGED <<global_indices, gsorted, gi, gj, result,
                                  caller, rng_calls>>
              ELSE /\ \E random_indices \in Choice(total_rows, n) :
                        GroupEnter(random_indices, "sampler")
                   /\ rng_calls' = rng_calls + 1
                   /\ ierr' = ierr
    /\ UNCHANGED <<fragments, starts, stops, counts, cumulative, total_rows, lk,
                   reads, sampled, output>>
    /\ UNCHANGED <<resVars, exprVars, stratVars, dayVars, scrapeVars>>

\* df.iloc[relative_rows] on the shard's frame: the rows at those positions.
ILoc(shard, relative_rows) ==
    [p \in DOMAIN relative_rows |-> <<shard, relative_rows[p]>>]

\* One iteration of `for file_path, relative_rows in indices_by_file.items()`:
\* pd.read_parquet either returns the shard's frame or raises.
LoadShard ==
    /\ ipc = "loading"
    /\ Len(sampled) < Len(result[1])
    /\ LET p == Len(sampled) + 1
           shard == result[1][p]
           relative_rows == result[2][p]
       IN \E readable \in BOOLEAN :
            /\ reads' = Append(reads, shard)
            /\ IF ~readable
                 THEN /\ ipc' = "raised"
                      /\ ierr' = "ShardReadError"
                      /\ UNCHANGED sampled
                 ELSE IF \E q \in DOMAIN relative_rows :
                            relative_rows[q] >= counts[shard + 1]
                 THEN /\ ipc' = "raised"
                      /\ ierr' = "IndexError"
                      /\ UNCHANGED sampled
                 ELSE /\ sampled' = Append(sampled, ILoc(shard, relative_rows))
                      /\ UNCHANGED <<ipc, ierr>>
    /\ UNCHANGED <<fragments, starts, stops, counts, cumulative, total_rows, lk,
                   global_indices, gsorted, gi, gj, result, caller, n_arg,
                   rng_calls, output>>
    /\ UNCHANGED <<resVars, exprVars, stratVars, dayVars, scrapeVars>>

\* `return pd.concat(sampled, ignore_index=True)`: pandas raises ValueError
\* ("No objects to concatenate") on an empty list.
SampleReturn ==
    /\ ipc = "loading"
    /\ Len(sampled) = Len(result[1])
    /\ IF sampled = <<>>
         THEN /\ ipc' = "raised"
              /\ ierr' = "NoObjectsToConcatenate"
              /\ UNCHANGED output
         ELSE /\ output' = Concat(sampled)
              /\ ipc' = "done"
              /\ UNCHANGED ierr
    /\ UNCHANGED <<fragments, starts, stops, counts, cumulative, total_rows, lk,
                   global_indices, gsorted, gi, gj, result, caller, n_arg,
                   rng_calls, reads, sampled>>
    /\ UNCHANGED <<resVars, exprVars, stratVars, dayVars, scrapeVars>>

IdxNext ==
    \/ ResolvePaths
    \/ BuildFragment
    \/ BuildFinish
    \/ Lookup
    \/ GroupCall
    \/ GroupStep
    \/ GroupReturn
    \/ SampleCall
    \/ LoadShard
    \/ SampleReturn

InitIndex == IdxInit /\ ResIdle /\ ExprIdle /\ StratIdle /\ DayIdle /\ ScrapeIdle

SpecIndex == InitIndex /\ [][IdxNext]_vars

(***************************************************************************)
(* FilteredSampler.get_random_sample (sampling/samplers.py): reservoir     *)
(* sampling over the record batches the filtered scan yields.  A batch is  *)
(* its number of rows; the row i of batch b is <<b, i>>.                   *)
(***************************************************************************)
BatchLists ==
    {s \in SeqsUpTo(0..MaxStream, MaxBatches) : SumSeq(s) <= MaxStream}

ResInit ==
    /\ batches \in BatchLists
    /\ n_req \in 0..MaxN
    /\ rpc = "call"
    /\ bi = 0 /\ ri = 0
    /\ reservoir = <<>> /\ total_seen = 0 /\ draws = 0 /\ sample_out = <<>>
    /\ rerr = "none"

\* `if n <= 0: return pd.DataFrame()`, else reservoir = [], total_seen = 0.
RandomSampleCall ==
    /\ rpc = "call"
    /\ IF n_req <= 0
         THEN rpc' = "done" /\ sample_out' = <<>>
         ELSE rpc' = "scan" /\ UNCHANGED sample_out
    /\ UNCHANGED <<batches, n_req, bi, ri, reservoir, total_seen, draws, rerr>>
    /\ UNCHANGED <<idxVars, exprVars, stratVars, dayVars, scrapeVars>>

\* `for batch in self._batches(needed)`: the scanner yields the next batch or
\* raises; an empty batch is skipped.
NextBatch ==
    /\ rpc = "scan"
    /\ bi < Len(batches)
    /\ \E readable \in BOOLEAN :
         IF ~readable
           THEN /\ rpc' = "raised"
                /\ rerr' = "ShardReadError"
                /\ UNCHANGED <<bi, ri>>
           ELSE /\ bi' = bi + 1
                /\ ri' = 0
                /\ rpc' = IF batches[bi + 1] = 0 THEN "scan" ELSE "rows"
                /\ UNCHANGED rerr
    /\ UNCHANGED <<batches, n_req, reservoir, total_seen, draws, sample_out>>
    /\ UNCHANGED <<idxVars, exprVars, stratVars, dayVars, scrapeVars>>

\* Mutant: `if len(reservoir) <= n`.
HasRoomOffByOne(res, n) == Len(res) <= n

\* `if len(reservoir) < n`
HasRoom(res, n) == Len(res) < n

\* `if j < n: reservoir[j] = row`
Replace(res, j, row, n) == IF j < n THEN [res EXCEPT ![j + 1] = row] ELSE res

\* Mutant: draw from [0, total_seen - 1), as if randint's upper end were
\* exclusive.
ReplacementDrawsExclusive(seen) == Integers(0, seen - 1)

\* `j = self.rng.randint(0, total_seen - 1)`: the values j can take.
ReplacementDraws(seen) == RandInt(0, seen - 1)

\* One iteration of `for i in range(len(df_batch))`.
OfferRow ==
    /\ rpc = "rows"
    /\ ri < batches[bi]
    /\ LET row == <<bi, ri>>
       IN /\ total_seen' = total_seen + 1
          /\ IF HasRoom(reservoir, n_req)
               THEN /\ reservoir' = Append(reservoir, row)
                    /\ UNCHANGED draws
               ELSE /\ \E j \in ReplacementDraws(total_seen + 1) :
                         reservoir' = Replace(reservoir, j, row, n_req)
                    /\ draws' = draws + 1
    /\ ri' = ri + 1
    /\ rpc' = IF ri + 1 = batches[bi] THEN "scan" ELSE "rows"
    /\ UNCHANGED <<batches, n_req, bi, sample_out, rerr>>
    /\ UNCHANGED <<idxVars, exprVars, stratVars, dayVars, scrapeVars>>

\* sample_df.iloc[idx]
Take(rows, idx) == [p \in DOMAIN idx |-> rows[idx[p] + 1]]

\* Mutant: `len(sample_df) < n`, which sends a full reservoir to the
\* re-sampling branch.
FitsRequestStrict(rows, n) == Len(rows) < n

\* `if len(sample_df) <= n`
FitsRequest(rows, n) == Len(rows) <= n

\* After the scan: an empty reservoir gives an empty frame; a reservoir of at
\* most n rows is returned as it is; a longer one is re-sampled with
\* rng.choice.
RandomSampleReturn ==
    /\ rpc = "scan"
    /\ bi = Len(batches)
    /\ IF reservoir = <<>>
         THEN sample_out' = <<>> /\ UNCHANGED draws
         ELSE IF FitsRequest(reservoir, n_req)
         THEN sample_out' = reservoir /\ UNCHANGED draws
         ELSE /\ \E idx \in Choice(Len(reservoir), n_req) :
                   sample_out' = Take(reservoir, idx)
              /\ draws' = draws + 1
    /\ rpc' = "done"
    /\ UNCHANGED <<batches, n_req, bi, ri, reservoir, total_seen, rerr>>
    /\ UNCHANGED <<idxVars, exprVars, stratVars, dayVars, scrapeVars>>

ResNext ==
    \/ RandomSampleCall
    \/ NextBatch
    \/ OfferRow
    \/ RandomSampleReturn

InitReservoir == IdxIdle /\ ResInit /\ ExprIdle /\ StratIdle /\ DayIdle /\ ScrapeIdle

SpecReservoir == InitReservoir /\ [][ResNext]_vars

(***************************************************************************)
(* FilteredSampler filter handling (sampling/samplers.py): validation in   *)
(* __init__, the column set a sampling call scans, _build_expression /     *)
(* _expr_for_condition in _batches, the scan that applies the expression   *)
(* and the columns of the returned table.                                  *)
(*                                                                         *)
(* A filter block (a Python dict, whose keys keep their insertion order)   *)
(* is a sequence of entries [key, val]; a val is [kind, v, s, sub] with    *)
(* kind "scalar" (v = <<x>>), "str" (s = the string), "list" or "tuple"    *)
(* (v = the values) or "block" (sub = the dict).  In a JSON request an     *)
(* array has kind "array".  Column values are the numbers 0..MaxVal; for a *)
(* string column the number stands for the string at that place of         *)
(* ActorCodes.                                                             *)
(***************************************************************************)
\* self.gdelt_columns: the declared columns (config["columns"]["gdelt_event"]).
GdeltColumns == {"Actor1Code", "QuadClass"}

Val == 0..MaxVal

ActorCodes == <<"CHN", "USA", "RUS", "GBR", "FRA", "DEU">>

ActorCode(name) == (CHOOSE i \in DOMAIN ActorCodes : ActorCodes[i] = name) - 1

\* The rows a scan can meet: every combination of column values.
Rows == [GdeltColumns -> Val]

Scalar(x) == [kind |-> "scalar", v |-> <<x>>, s |-> "", sub |-> <<>>]

Str(name) == [kind |-> "str", v |-> <<>>, s |-> name, sub |-> <<>>]

List(xs) == [kind |-> "list", v |-> xs, s |-> "", sub |-> <<>>]

Tuple(xs) == [kind |-> "tuple", v |-> xs, s |-> "", sub |-> <<>>]

Array(xs) == [kind |-> "array", v |-> xs, s |-> "", sub |-> <<>>]

Block(b) == [kind |-> "block", v |-> <<>>, s |-> "", sub |-> b]

Entry(k, val) == [key |-> k, val |-> val]

BlockKeys == {"AND", "OR"}

\* Leaf conditions of the generated filters: a scalar, or a list of two
\* different values.
Conds ==
    {Scalar(x) : x \in Val}
        \cup {List(<<xy[1], xy[2]>>) : xy \in {p \in Val \X Val : p[1] < p[2]}}

LeafEntries == {Entry(c, cond) : c \in GdeltColumns, cond \in Conds}

\* Blocks of leaf conditions only: at most one condition per column.
FlatBlocks ==
    {<<>>} \cup {<<l>> : l \in LeafEntries}
        \cup {<<ll[1], ll[2]>> :
                ll \in {p \in LeafEntries \X LeafEntries : p[1].key # p[2].key}}

SmallBlocks == {b \in FlatBlocks : Len(b) <= 1}

\* A leaf on a column that is not declared.
UndeclaredLeaf == Entry("Bogus", Scalar(0))

\* The operators _expr_for_condition knows (FilterType).
FilterType == {"equals", "in_list", "gt", "lt", "range", "between"}

\* An operator FilterType does not have.
UnknownOp == "like"

\* A sequence value of the given kind: "list", "tuple" or "array".
SeqOf(kind, xs) == [kind |-> kind, v |-> xs, s |-> "", sub |-> <<>>]

\* Explicit operator objects {"op": ..., ...}; the values of in_list are an
\* array in a JSON request and a list in a Python dict.
OpValue(op, x) == Block(<<Entry("op", Str(op)), Entry("value", Scalar(x))>>)

OpValues(seq) == Block(<<Entry("op", Str("in_list")), Entry("values", seq)>>)

OpMinMax(op, lo, hi) ==
    Block(<<Entry("op", Str(op)), Entry("min", Scalar(lo)),
            Entry("max", Scalar(hi))>>)

OrderedPairs == {p \in Val \X Val : p[1] <= p[2]}

OpObjects(kind) ==
    {OpValue(op, x) : op \in {"equals", "gt", "lt", UnknownOp}, x \in Val}
        \cup {OpValues(SeqOf(kind, <<p[1], p[2]>>)) : p \in OrderedPairs}
        \cup {OpMinMax(op, p[1], p[2]) :
                op \in {"range", "between"}, p \in OrderedPairs}

\* Sequence conditions of every length from 0 to 3.
SeqConds(kind) ==
    {SeqOf(kind, <<>>), SeqOf(kind, <<0, 1, 2>>)}
        \cup {SeqOf(kind, <<x>>) : x \in Val}
        \cup {SeqOf(kind, <<p[1], p[2]>>) : p \in Val \X Val}

\* One condition on one column, at the top level or one block down.
SingleLeafSpecs(conds) ==
    {<<Entry(c, cond)>> : c \in GdeltColumns, cond \in conds}
        \cup {<<Entry("AND", Block(<<Entry(c, cond)>>))>> :
                c \in GdeltColumns, cond \in conds}

\* Filter dicts a Python caller passes: tuples and operator objects.
ApiSpecs == SingleLeafSpecs(SeqConds("tuple") \cup OpObjects("list"))

\* The --filter JSON texts of the sampling command, as parsed values.
JsonRequests ==
    SingleLeafSpecs({Scalar(x) : x \in Val} \cup SeqConds("array")
                        \cup OpObjects("array"))

\* The filter specs the model constructs samplers with.
FilterSpecs ==
    FlatBlocks
        \cup {<<Entry(K, Block(b))>> : K \in BlockKeys, b \in FlatBlocks}
        \cup {<<l, Entry(K, Block(b))>> :
                l \in LeafEntries, K \in BlockKeys, b \in SmallBlocks}
        \cup {<<Entry(K, Block(b)), l>> :
                l \in LeafEntries, K \in BlockKeys, b \in SmallBlocks}
        \cup {<<Entry(K1, Block(<<l1, Entry(K2, Block(<<l2>>))>>))>> :
                K1 \in BlockKeys, K2 \in BlockKeys,
                l1 \in LeafEntries, l2 \in LeafEntries}
        \cup {<<UndeclaredLeaf>>,
              <<Entry("AND", Block(<<Entry("OR", Block(<<UndeclaredLeaf>>))>>))>>,
              <<Entry("OR", Scalar(0))>>,
              <<Entry("QuadClass", Block(<<>>))>>}

\* The `columns` argument: None or the empty set is {}, a set of declared
\* columns, or a set with an undeclared column.
ColumnArgs == {{}, {"QuadClass"}, {"Actor1Code"}, {"Bogus"}}

\* Either the sampling command holds a --filter text, or a Python caller is
\* about to construct the sampler with a dict.
ExprInit ==
    /\ \/ /\ via = "cli" /\ fpc = "cmd"
          /\ request \in JsonRequests /\ filter_dict = <<>>
       \/ /\ via = "api" /\ fpc = "new"
          /\ request = <<>> /\ filter_dict \in FilterSpecs \cup ApiSpecs
    /\ columns \in ColumnArgs
    /\ needed = {} /\ opened = FALSE /\ api = "none" /\ out_cols = {}
    /\ expr = <<>>
    /\ matched = {}
    /\ ferr = "none"

\* json.loads: an array becomes a list, an object a dict with the same keys
\* in the same order, a number stays a number.
RECURSIVE JsonLoads(_)
JsonLoads(val) ==
    IF val.kind = "array" THEN List(val.v)
    ELSE IF val.kind = "block"
      THEN Block([p \in DOMAIN val.sub |->
                    Entry(val.sub[p].key, JsonLoads(val.sub[p].val))])
    ELSE val

\* run_sampling_cmd, mode "filtered": filter_dict = json.loads(args.filter).
RunSamplingCmd ==
    /\ fpc = "cmd"
    /\ filter_dict' = JsonLoads(Block(request)).sub
    /\ fpc' = "new"
    /\ UNCHANGED <<request, via, columns, needed, opened, api, out_cols, expr,
                   matched, ferr>>
    /\ UNCHANGED <<idxVars, resVars, stratVars, dayVars, scrapeVars>>

\* validate_block without the recursive call on AND / OR values.
ValidateBlockTopLevel(block) ==
    \A p \in DOMAIN block :
        IF block[p].key \in BlockKeys
          THEN block[p].val.kind = "block"
          ELSE block[p].key \in GdeltColumns

\* _validate_filter_dict.validate_block: TRUE when no ValueError is raised.
RECURSIVE ValidateBlock(_)
ValidateBlock(block) ==
    \A p \in DOMAIN block :
        IF block[p].key \in BlockKeys
          THEN /\ block[p].val.kind = "block"
               /\ ValidateBlock(block[p].val.sub)
          ELSE block[p].key \in GdeltColumns

\* FilteredSampler.__init__: self.columns = columns or self.gdelt_columns, then
\* _validate_columns and _validate_filter_dict raise ValueError or the sampler
\* is constructed.  No dataset is opened and the generator is not drawn from.
Construct ==
    /\ fpc = "new"
    /\ columns' = IF columns = {} THEN GdeltColumns ELSE columns
    /\ IF columns' \subseteq GdeltColumns /\ ValidateBlock(filter_dict)
         THEN fpc' = "constructed" /\ UNCHANGED ferr
         ELSE fpc' = "raised" /\ ferr' = "ValueError"
    /\ UNCHANGED <<request, via, filter_dict, needed, opened, api, out_cols,
                   expr, matched>>
    /\ UNCHANGED <<idxVars, resVars, stratVars, dayVars, scrapeVars>>

\* {key for key in self.filter_dict.keys() if key not in {"AND","OR","NOT"}}
TopLevelKeys(block) ==
    {block[p].key : p \in DOMAIN block} \ {"AND", "OR", "NOT"}

\* `needed` of filter_dataset, get_random_sample and get_stratified_sample.
Needed(cols, block, extra) == cols \cup TopLevelKeys(block) \cup extra

\* A sampling call starts: it computes `needed` and, at the first batch it
\* asks for, _batches opens the dataset with the schema of `needed`.  The
\* sampling command only calls get_random_sample.
CallSampling ==
    /\ fpc = "constructed"
    /\ \E a \in {"random", "stratified", "filter"} :
         \E stratify_col \in GdeltColumns :
           /\ via = "cli" => a = "random"
           /\ a # "stratified" => stratify_col = "QuadClass"
           /\ api' = a
           /\ needed' = Needed(columns, filter_dict,
                               IF a = "stratified" THEN {stratify_col} ELSE {})
    /\ opened' = TRUE
    /\ fpc' = "opened"
    /\ UNCHANGED <<request, via, filter_dict, columns, out_cols, expr, matched,
                   ferr>>
    /\ UNCHANGED <<idxVars, resVars, stratVars, dayVars, scrapeVars>>

\* pyarrow expressions: [node, col, v, kids].
NoExpr == [node |-> "none", col |-> "", v |-> <<>>, kids |-> <<>>]

InvalidExpr == [node |-> "invalid", col |-> "", v |-> <<>>, kids |-> <<>>]

FieldEq(c, x) == [node |-> "eq", col |-> c, v |-> <<x>>, kids |-> <<>>]

FieldIsIn(c, xs) == [node |-> "isin", col |-> c, v |-> xs, kids |-> <<>>]

FieldGt(c, x) == [node |-> "gt", col |-> c, v |-> <<x>>, kids |-> <<>>]

FieldLt(c, x) == [node |-> "lt", col |-> c, v |-> <<x>>, kids |-> <<>>]

FieldGe(c, x) == [node |-> "ge", col |-> c, v |-> <<x>>, kids |-> <<>>]

FieldLe(c, x) == [node |-> "le", col |-> c, v |-> <<x>>, kids |-> <<>>]

AndExpr(a, b) == [node |-> "and", col |-> "", v |-> <<>>, kids |-> <<a, b>>]

OrExpr(a, b) == [node |-> "or", col |-> "", v |-> <<>>, kids |-> <<a, b>>]

\* (f >= lo) & (f <= hi)
FieldBetween(c, lo, hi) == AndExpr(FieldGe(c, lo), FieldLe(c, hi))

\* dict access: `key in d` and d[key].
Has(d, k) == \E p \in DOMAIN d : d[p].key = k

Get(d, k) == d[CHOOSE p \in DOMAIN d : d[p].key = k].val

\* The dict branch of _expr_for_condition: op = cond.get("op"); a missing
\* operand (KeyError) and an unknown op (ValueError) both raise.
ExprForOperator(column, d) ==
    LET op == IF Has(d, "op") THEN Get(d, "op").s ELSE "" IN
    IF op \in {"equals", "gt", "lt"} /\ Has(d, "value")
      THEN LET x == Get(d, "value").v[1] IN
           IF op = "equals" THEN FieldEq(column, x)
           ELSE IF op = "gt" THEN FieldGt(column, x)
           ELSE FieldLt(column, x)
    ELSE IF op = "in_list" /\ Has(d, "values")
      THEN FieldIsIn(column, Get(d, "values").v)
    ELSE IF op \in {"range", "between"} /\ Has(d, "min") /\ Has(d, "max")
      THEN FieldBetween(column, Get(d, "min").v[1], Get(d, "max").v[1])
    ELSE InvalidExpr

\* _expr_for_condition(column, cond); InvalidExpr stands for the ValueError.
ExprForCondition(column, cond) ==
    IF cond.kind = "scalar" THEN FieldEq(column, cond.v[1])
    ELSE IF cond.kind = "str" THEN FieldEq(column, ActorCode(cond.s))
    ELSE IF cond.kind = "list" THEN FieldIsIn(column, cond.v)
    ELSE IF cond.kind = "tuple" /\ Len(cond.v) = 2
      THEN FieldBetween(column, cond.v[1], cond.v[2])
    ELSE IF cond.kind = "block" THEN ExprForOperator(column, cond.sub)
    ELSE InvalidExpr

\* `expr = sub if expr is None else (expr & sub)` for the key "AND" and for a
\* column key, `(expr | sub)` for the key "OR".
Join(key, acc, sub) ==
    IF acc = NoExpr THEN sub
    ELSE IF key = "OR" THEN OrExpr(acc, sub)
    ELSE AndExpr(acc, sub)

\* _build_expression(block): NoExpr is Python's None.
RECURSIVE BuildExpression(_)
RECURSIVE BuildLoop(_, _)
BuildLoop(entries, acc) ==
    IF entries = <<>> THEN acc
    ELSE LET key == Head(entries).key
             val == Head(entries).val
         IN IF key \in BlockKeys
              THEN LET sub == BuildExpression(val.sub)
                   IN IF sub = NoExpr
                        THEN BuildLoop(Tail(entries), acc)
                        ELSE BuildLoop(Tail(entries), Join(key, acc, sub))
              ELSE BuildLoop(Tail(entries),
                             Join(key, acc, ExprForCondition(key, val)))

BuildExpression(block) ==
    IF block = <<>> THEN NoExpr ELSE BuildLoop(block, NoExpr)

\* An expression _expr_for_condition raised for.
RECURSIVE Raises(_)
Raises(e) ==
    \/ e.node = "invalid"
    \/ \E p \in DOMAIN e.kids : Raises(e.kids[p])

\* The fields an expression refers to.
RECURSIVE ExprColumns(_)
ExprColumns(e) ==
    IF e.node \in {"and", "or"}
      THEN ExprColumns(e.kids[1]) \cup ExprColumns(e.kids[2])
    ELSE IF e.node \in {"none", "invalid"} THEN {}
    ELSE {e.col}

\* The scanner's filter on one row; filter=None lets every row through.
RECURSIVE Eval(_, _)
Eval(e, row) ==
    CASE e.node = "none" -> TRUE
      [] e.node = "eq" -> row[e.col] = e.v[1]
      [] e.node = "isin" -> row[e.col] \in Range(e.v)
      [] e.node = "gt" -> row[e.col] > e.v[1]
      [] e.node = "lt" -> row[e.col] < e.v[1]
      [] e.node = "ge" -> row[e.col] >= e.v[1]
      [] e.node = "le" -> row[e.col] <= e.v[1]
      [] e.node = "and" -> Eval(e.kids[1], row) /\ Eval(e.kids[2], row)
      [] e.node = "or" -> Eval(e.kids[1], row) \/ Eval(e.kids[2], row)
      [] OTHER -> FALSE

\* _batches: expr = self._build_expression(self.filter_dict)
BuildExpr ==
    /\ fpc = "opened"
    /\ LET e == BuildExpression(filter_dict)
       IN IF Raises(e)
            THEN fpc' = "raised" /\ ferr' = "ValueError" /\ UNCHANGED expr
            ELSE fpc' = "compiled" /\ expr' = e /\ UNCHANGED ferr
    /\ UNCHANGED <<request, via, filter_dict, columns, needed, opened, api,
                   out_cols, matched>>
    /\ UNCHANGED <<idxVars, resVars, stratVars, dayVars, scrapeVars>>

\* _batches: dataset.scanner(columns, filter=expr).to_batches() over a dataset
\* that holds every row of Rows.  The dataset's schema has the fields of
\* `needed` only, and a filter that names another field is refused.
Scan ==
    /\ fpc = "compiled"
    /\ IF ExprColumns(expr) \subseteq needed
         THEN /\ matched' = {row \in Rows : Eval(expr, row)}
              /\ fpc' = "scanned"
              /\ UNCHANGED ferr
         ELSE /\ fpc' = "raised"
              /\ ferr' = "ArrowInvalid"
              /\ UNCHANGED matched
    /\ UNCHANGED <<request, via, filter_dict, columns, needed, opened, api,
                   out_cols, expr>>
    /\ UNCHANGED <<idxVars, resVars, stratVars, dayVars, scrapeVars>>

\* The columns of the table a sampling call returns after a scan with n >= 1:
\* get_random_sample returns pd.concat(reservoir) as it is (the columns of the
\* scan) or an empty pd.DataFrame(); get_stratified_sample keeps the declared
\* columns of the scan; filter_dataset selects `needed`.
ReturnedColumns(a, cols, rows) ==
    IF a = "filter" \/ rows # {} THEN cols ELSE {}

ReturnTable ==
    /\ fpc = "scanned"
    /\ out_cols' = ReturnedColumns(api, needed, matched)
    /\ fpc' = "returned"
    /\ UNCHANGED <<request, via, filter_dict, columns, needed, opened, api,
                   expr, matched, ferr>>
    /\ UNCHANGED <<idxVars, resVars, stratVars, dayVars, scrapeVars>>

ExprNext ==
    \/ RunSamplingCmd
    \/ Construct
    \/ CallSampling
    \/ BuildExpr
    \/ Scan
    \/ ReturnTable

InitExpr == IdxIdle /\ ResIdle /\ ExprInit /\ StratIdle /\ DayIdle /\ ScrapeIdle

SpecExpr == InitExpr /\ [][ExprNext]_vars

(***************************************************************************)
(* FilteredSampler.get_stratified_sample (sampling/samplers.py): one       *)
(* reservoir per value of the stratification column.  A batch of the       *)
(* filtered scan is the sequence of its rows' stratification values; a row *)
(* is <<batch, row in batch>>.  The dicts `reservoirs` and `counts` are    *)
(* sequences of entries [key, val] in insertion order.                     *)
(***************************************************************************)
\* Values of the stratification column: two strings, a float NaN and a
\* missing value.
GroupValues == {"A", "B", "NaN", "None"}

\* The scans the model runs: every sequence of at most MaxGroupRows values,
\* cut into two batches at every place (either batch may be empty).
StratBatchLists ==
    UNION {{<<SubSeq(s, 1, c), SubSeq(s, c + 1, Len(s))>> : c \in 0..Len(s)} :
             s \in SeqsUpTo(GroupValues, MaxGroupRows)}

StratInit ==
    /\ sbatches \in StratBatchLists
    /\ n_per_group \in 0..MaxPerGroup
    /\ spc = "call"
    /\ sbi = 0 /\ sri = 0
    /\ reservoirs = <<>> /\ group_counts = <<>>
    /\ sdraws = 0
    /\ strat_out = <<>>

\* `if n_per_group <= 0: return pd.DataFrame()`, else the dicts are created
\* and the scan starts.
StratifiedSampleCall ==
    /\ spc = "call"
    /\ spc' = IF n_per_group <= 0 THEN "done" ELSE "scan"
    /\ UNCHANGED <<sbatches, n_per_group, sbi, sri, reservoirs, group_counts,
                   sdraws, strat_out>>
    /\ UNCHANGED <<idxVars, resVars, exprVars, dayVars, scrapeVars>>

\* `for batch in self._batches(needed)`: an empty batch is skipped.
StratNextBatch ==
    /\ spc = "scan"
    /\ sbi < Len(sbatches)
    /\ sbi' = sbi + 1
    /\ sri' = 0
    /\ spc' = IF sbatches[sbi + 1] = <<>> THEN "scan" ELSE "rows"
    /\ UNCHANGED <<sbatches, n_per_group, reservoirs, group_counts, sdraws,
                   strat_out>>
    /\ UNCHANGED <<idxVars, resVars, exprVars, dayVars, scrapeVars>>

\* Mutant: the group key is used as it was read.
NormalizeKeyOmitted(g) == g

\* `if pd.isna(g): g = None`
NormalizeKey(g) == IF g \in {"NaN", "None"} THEN "None" ELSE g

\* counts.get(g, 0)
GetOr(d, k, default) == IF Has(d, k) THEN Get(d, k) ELSE default

\* d[k] = x: a new key goes to the end, an old key keeps its place.
Put(d, k, x) ==
    IF Has(d, k)
      THEN [p \in DOMAIN d |-> IF d[p].key = k THEN Entry(k, x) ELSE d[p]]
      ELSE Append(d, Entry(k, x))

\* One iteration of `for i in range(len(df_batch))`.
StratOfferRow ==
    /\ spc = "rows"
    /\ sri < Len(sbatches[sbi])
    /\ LET row == <<sbi, sri>>
           g == NormalizeKey(sbatches[sbi][sri + 1])
           cnt == GetOr(group_counts, g, 0) + 1
           r == GetOr(reservoirs, g, <<>>)
       IN /\ group_counts' = Put(group_counts, g, cnt)
          /\ IF HasRoom(r, n_per_group)
               THEN /\ reservoirs' = Put(reservoirs, g, Append(r, row))
                    /\ UNCHANGED sdraws
               ELSE /\ \E j \in ReplacementDraws(cnt) :
                         reservoirs' =
                             Put(reservoirs, g, Replace(r, j, row, n_per_group))
                    /\ sdraws' = sdraws + 1
    /\ sri' = sri + 1
    /\ spc' = IF sri + 1 = Len(sbatches[sbi]) THEN "scan" ELSE "rows"
    /\ UNCHANGED <<sbatches, n_per_group, sbi, strat_out>>
    /\ UNCHANGED <<idxVars, resVars, exprVars, dayVars, scrapeVars>>

\* After the scan: the reservoirs are concatenated in the order of the dict.
StratifiedSampleReturn ==
    /\ spc = "scan"
    /\ sbi = Len(sbatches)
    /\ strat_out' = Concat([p \in DOMAIN reservoirs |-> reservoirs[p].val])
    /\ spc' = "done"
    /\ UNCHANGED <<sbatches, n_per_group, sbi, sri, reservoirs, group_counts,
                   sdraws>>
    /\ UNCHANGED <<idxVars, resVars, exprVars, dayVars, scrapeVars>>

StratNext ==
    \/ StratifiedSampleCall
    \/ StratNextBatch
    \/ StratOfferRow
    \/ StratifiedSampleReturn

InitStratified == IdxIdle /\ ResIdle /\ ExprIdle /\ StratInit /\ DayIdle /\ ScrapeIdle

SpecStratified == InitStratified /\ [][StratNext]_vars

(***************************************************************************)
(* DailySampler.get_daily_samples (sampling/samplers.py).  The dataset is  *)
(* the sequence of its shards in path order; a shard is [has_day, days]:   *)
(* whether the file has a Day column, and the Day value of each row.  A    *)
(* row is <<shard, row in shard>>.  The dict `daily` is a sequence of      *)
(* entries [key, val] in insertion order.                                  *)
(*                                                                         *)
(* A second run of the same program with the same seed over the same       *)
(* dataset can follow the first (SpecDailyRerun): Path.glob yields the     *)
(* files in an order the file system chooses, and the seeded generator     *)
(* returns the same value as in the first run for as long as it is asked   *)
(* the same sequence of calls.                                             *)
(***************************************************************************)
\* Values of the Day column; NaNDay is a missing Day.
Days == {1, 2}

NaNDay == 0

Shard(has, days) == [has_day |-> has, days |-> days]

\* Lists of row counts, one per shard, with at most MaxDayRows rows in all.
RECURSIVE RowCounts(_, _)
RowCounts(nshards, rows) ==
    IF nshards = 0 THEN {<<>>}
    ELSE UNION {{<<c>> \o rest : rest \in RowCounts(nshards - 1, rows - c)} :
                  c \in 0..rows}

\* The shards with c rows: with a Day column and any Day values, or (for one
\* row) without a Day column.
ShardsOfSize(c) ==
    {Shard(TRUE, d) : d \in [1..c -> Days \cup {NaNDay}]}
        \cup (IF c = 1 THEN {Shard(FALSE, <<>>)} ELSE {})

RECURSIVE DatasetsOf(_)
DatasetsOf(cs) ==
    IF cs = <<>> THEN {<<>>}
    ELSE {<<sh>> \o rest : sh \in ShardsOfSize(Head(cs)),
                           rest \in DatasetsOf(Tail(cs))}

Datasets ==
    UNION {DatasetsOf(cs) :
             cs \in UNION {RowCounts(k, MaxDayRows) : k \in 0..MaxDayShards}}

DayInit ==
    /\ day_shards \in Datasets
    /\ samples_per_day \in 0..MaxPerDay
    /\ dpc = "call"
    /\ run = 1
    /\ glob_order = <<>>
    /\ fi = 0
    /\ daily = <<>>
    /\ rng_log = <<>> /\ rng_used = <<>>
    /\ first_out = <<>> /\ daily_out = <<>>
    /\ derr = "none"

\* The orders in which glob("*.parquet") can yield n files.
GlobOrders(n) ==
    {o \in [1..n -> 1..n] : \A p, q \in 1..n : o[p] = o[q] => p = q}

\* get_daily_samples starts: daily = {} and the glob is evaluated.
DailyCall ==
    /\ dpc = "call"
    /\ glob_order' \in GlobOrders(Len(day_shards))
    /\ dpc' = "files"
    /\ UNCHANGED <<day_shards, samples_per_day, run, fi, daily, rng_log,
                   rng_used, first_out, daily_out, derr>>
    /\ UNCHANGED <<idxVars, resVars, exprVars, stratVars, scrapeVars>>

\* df.groupby("Day"): the days of the shard in ascending order (a missing Day
\* is dropped), each with the positions of its rows.
GroupDays(days) ==
    LET present == {days[p] : p \in DOMAIN days} \cap Days
    IN NpSort(CHOOSE s \in [1..Cardinality(present) -> present] :
                \A d \in present : \E p \in DOMAIN s : s[p] = d)

RECURSIVE PositionsFrom(_, _, _)
PositionsFrom(days, d, p) ==
    IF p > Len(days) THEN <<>>
    ELSE (IF days[p] = d THEN <<p - 1>> ELSE <<>>)
            \o PositionsFrom(days, d, p + 1)

\* The rows of the group of day d, in the order of the shard.
GroupRows(days, d) == PositionsFrom(days, d, 1)

\* A call of the generator: rng.choice(n, size, replace=False) returned idx.
Call(n, size, idx) == [n |-> n, size |-> size, idx |-> idx]

\* The values the next rng.choice(n, size) can return after the calls `used`:
\* in a second run that has so far repeated the calls of the first run and
\* makes the same call again, the value of the first run; any value otherwise.
ChoiceAfter(used, n, size) ==
    LET k == Len(used) + 1
    IN IF /\ run = 2
          /\ Len(rng_log) >= k
          /\ SubSeq(rng_log, 1, k - 1) = used
          /\ rng_log[k].n = n /\ rng_log[k].size = size
         THEN {rng_log[k].idx}
         ELSE Choice(n, size)

\* min(samples_per_day, len(group))
SampleSize(per_day, n) == IF per_day <= n THEN per_day ELSE n

\* The draws of `for day, group in df.groupby("Day")` over the groups gs,
\* after the calls `used`: every sequence of calls the loop can end with.
RECURSIVE DrawGroups(_, _, _)
DrawGroups(days, gs, used) ==
    IF gs = <<>> THEN {used}
    ELSE LET n == Len(GroupRows(days, Head(gs)))
             size == SampleSize(samples_per_day, n)
         IN IF size = 0 THEN DrawGroups(days, Tail(gs), used)
            ELSE UNION {DrawGroups(days, Tail(gs),
                                   Append(used, Call(n, size, idx))) :
                          idx \in ChoiceAfter(used, n, size)}

\* group.iloc[idx] as rows of the shard.
GroupSample(shard, days, d, idx) ==
    [p \in DOMAIN idx |-> <<shard, GroupRows(days, d)[idx[p] + 1]>>]

\* daily.setdefault(day, []).append(sample) for the groups gs, whose draws
\* are calls[c], calls[c + 1], ...
RECURSIVE AppendSamples(_, _, _, _, _, _)
AppendSamples(d, shard, days, gs, calls, c) ==
    IF gs = <<>> \/ c > Len(calls) THEN d
    ELSE AppendSamples(
             Put(d, Head(gs),
                 Append(GetOr(d, Head(gs), <<>>),
                        GroupSample(shard, days, Head(gs), calls[c].idx))),
             shard, days, Tail(gs), calls, c + 1)

\* One iteration of `for file_path in self.folder.glob("*.parquet")`:
\* pd.read_parquet returns the shard's frame or raises; a frame without a Day
\* column is skipped.
DailyFile ==
    /\ dpc = "files"
    /\ fi < Len(glob_order)
    /\ LET shard == glob_order[fi + 1]
           df == day_shards[shard]
       IN \E readable \in BOOLEAN :
            IF ~readable
              THEN /\ dpc' = "raised"
                   /\ derr' = "ShardReadError"
                   /\ UNCHANGED <<fi, daily, rng_used>>
              ELSE /\ fi' = fi + 1
                   /\ UNCHANGED <<dpc, derr>>
                   /\ IF ~df.has_day
                        THEN UNCHANGED <<daily, rng_used>>
                        ELSE \E calls \in DrawGroups(df.days, GroupDays(df.days),
                                                     rng_used) :
                               /\ rng_used' = calls
                               /\ daily' = AppendSamples(daily, shard, df.days,
                                                         GroupDays(df.days), calls,
                                                         Len(rng_used) + 1)
    /\ UNCHANGED <<day_shards, samples_per_day, run, glob_order, rng_log,
                   first_out, daily_out>>
    /\ UNCHANGED <<idxVars, resVars, exprVars, stratVars, scrapeVars>>

\* The flattening: an empty frame when `daily` is empty, else the chunks of
\* each day concatenated, day after day in the order of the dict.
DailyReturn ==
    /\ dpc = "files"
    /\ fi = Len(glob_order)
    /\ daily_out' = Concat([p \in DOMAIN daily |-> Concat(daily[p].val)])
    /\ dpc' = "done"
    /\ UNCHANGED <<day_shards, samples_per_day, run, glob_order, fi, daily,
                   rng_log, rng_used, first_out, derr>>
    /\ UNCHANGED <<idxVars, resVars, exprVars, stratVars, scrapeVars>>

\* The program is run again with the same seed over the same dataset: a new
\* DailySampler, a new generator from the same seed.
Rerun ==
    /\ dpc = "done"
    /\ run = 1
    /\ run' = 2
    /\ rng_log' = rng_used
    /\ first_out' = daily_out
    /\ rng_used' = <<>>
    /\ daily' = <<>>
    /\ daily_out' = <<>>
    /\ glob_order' = <<>>
    /\ fi' = 0
    /\ dpc' = "call"
    /\ UNCHANGED <<day_shards, samples_per_day, derr>>
    /\ UNCHANGED <<idxVars, resVars, exprVars, stratVars, scrapeVars>>

DayNext ==
    \/ DailyCall
    \/ DailyFile
    \/ DailyReturn

RerunNext ==
    \/ DailyCall
    \/ DailyFile
    \/ DailyReturn
    \/ Rerun

InitDaily == IdxIdle /\ ResIdle /\ ExprIdle /\ StratIdle /\ DayInit /\ ScrapeIdle

SpecDaily == InitDaily /\ [][DayNext]_vars

SpecDailyRerun == InitDaily /\ [][RerunNext]_vars

(***************************************************************************)
(* download_gdelt_files (scraping/scraper.py).  A URL is named by the file *)
(* name it ends with; the download directory maps each file name to        *)
(* "absent", "complete" (every byte of a response was written) or          *)
(* "partial" (the file was opened for writing and the response was not     *)
(* written to its end).  One attempt is one step.  The pipeline can be run *)
(* a second time over the same directory.                                  *)
(***************************************************************************)
\* url.split("/")[-1] of the URLs the model downloads.
Filenames == {"a.zip", "b.zip"}

\* The initial download directory: each file is absent or was downloaded
\* whole before.
Directories == [Filenames -> {"absent", "complete"}]

ScrapeInit ==
    /\ urls \in SeqsUpTo(Filenames, MaxUrls)
    /\ retries \in 0..MaxRetries
    /\ disk \in Directories
    /\ wpc = "call"
    /\ pass = 1
    /\ ui = 0 /\ attempt = 0
    /\ success = 0 /\ skipped = 0 /\ failed = <<>>
    /\ events = <<>>

\* download_gdelt_files starts: the counters are set to zero.
DownloadCall ==
    /\ wpc = "call"
    /\ success' = 0 /\ skipped' = 0 /\ failed' = <<>>
    /\ ui' = 0 /\ attempt' = 0
    /\ events' = <<>>
    /\ wpc' = "loop"
    /\ UNCHANGED <<urls, retries, disk, pass>>
    /\ UNCHANGED <<idxVars, resVars, exprVars, stratVars, dayVars>>

\* os.path.exists(local_path)
Exists(d, filename) == d[filename] # "absent"

\* An event of the run: what happened to the URL at position p.
Event(p, what) == [url |-> p, what |-> what]

\* `for url in urls`: an existing file is skipped; otherwise the attempts
\* start (range(retries) is empty when retries <= 0).
NextUrl ==
    /\ wpc = "loop"
    /\ ui < Len(urls)
    /\ IF Exists(disk, urls[ui + 1])
         THEN /\ skipped' = skipped + 1
              /\ events' = Append(events, Event(ui + 1, "skip"))
              /\ ui' = ui + 1
              /\ UNCHANGED wpc
         ELSE IF retries <= 0
         THEN /\ ui' = ui + 1
              /\ UNCHANGED <<skipped, events, wpc>>
         ELSE /\ wpc' = "attempt"
              /\ UNCHANGED <<skipped, events, ui>>
    /\ attempt' = 0
    /\ UNCHANGED <<urls, retries, disk, pass, success, failed>>
    /\ UNCHANGED <<idxVars, resVars, exprVars, stratVars, dayVars>>

\* What an attempt can do to the file: the request fails before the file is
\* opened; the file is opened (created or truncated) and the response breaks
\* off; or the response is written to its end.
Outcomes == {"refused", "broken", "written"}

\* Mutant: a broken response leaves the file as it was before the attempt.
FileAfterUntouched(before, outcome) ==
    IF outcome = "written" THEN "complete" ELSE before

\* The file after an attempt: open(local_path, "wb") and the chunk loop.
FileAfter(before, outcome) ==
    IF outcome = "written" THEN "complete"
    ELSE IF outcome = "broken" THEN "partial"
    ELSE before

\* Mutant: `if attempt == retries`, which no attempt of range(retries)
\* reaches.
IsLastAttemptNever(a, r) == a = r

\* `if attempt == retries - 1`
IsLastAttempt(a, r) == a = r - 1

\* One iteration of `for attempt in range(retries)`: the try block and its
\* except clause.
Attempt ==
    /\ wpc = "attempt"
    /\ LET filename == urls[ui + 1] IN
       \E outcome \in Outcomes :
         /\ disk' = [disk EXCEPT ![filename] = FileAfter(disk[filename], outcome)]
         /\ IF outcome = "written"
              THEN /\ success' = success + 1
                   /\ events' = Append(events, Event(ui + 1, "ok"))
                   /\ ui' = ui + 1
                   /\ wpc' = "loop"
                   /\ UNCHANGED <<failed, attempt>>
              ELSE /\ events' = Append(events, Event(ui + 1, "fail"))
                   /\ failed' = IF IsLastAttempt(attempt, retries)
                                  THEN Append(failed, filename) ELSE failed
                   /\ IF attempt + 1 < retries
                        THEN /\ attempt' = attempt + 1
                             /\ UNCHANGED <<ui, wpc>>
                        ELSE /\ ui' = ui + 1
                             /\ wpc' = "loop"
                             /\ UNCHANGED attempt
                   /\ UNCHANGED success
    /\ UNCHANGED <<urls, retries, pass, skipped>>
    /\ UNCHANGED <<idxVars, resVars, exprVars, stratVars, dayVars>>

\* The loop is over: the summary is returned.
DownloadReturn ==
    /\ wpc = "loop"
    /\ ui = Len(urls)
    /\ wpc' = "done"
    /\ UNCHANGED <<urls, retries, disk, pass, ui, attempt, success, skipped,
                   failed, events>>
    /\ UNCHANGED <<idxVars, resVars, exprVars, stratVars, dayVars>>

\* run_scraping_pipeline is run again, over the same download directory
\* and the same links.
RunAgain ==
    /\ wpc = "done"
    /\ pass = 1
    /\ pass' = 2
    /\ wpc' = "call"
    /\ UNCHANGED <<urls, retries, disk, ui, attempt, success, skipped, failed,
                   events>>
    /\ UNCHANGED <<idxVars, resVars, exprVars, stratVars, dayVars>>

ScrapeNext ==
    \/ DownloadCall
    \/ NextUrl
    \/ Attempt
    \/ DownloadReturn
    \/ RunAgain

InitScraper ==
    IdxIdle /\ ResIdle /\ ExprIdle /\ StratIdle /\ DayIdle /\ ScrapeInit

SpecScraper == InitScraper /\ [][ScrapeNext]_vars

\* Every step of the loop is taken at some time: the function runs to its
\* return.
SpecScraperLive == SpecScraper /\ WF_vars(ScrapeNext)

(***************************************************************************)
(* Properties of FileIndex and IndexedSampler, checked under SpecIndex.    *)
(***************************************************************************)
\* The FileIndex constructor has returned.
Built == ipc \notin {"idle", "resolve", "build", "nofiles"}

Shards == 0..(Len(counts) - 1)

\* Every row of the dataset, as <<shard, relative row>>.
AllRows == {<<j, r>> : j \in Shards, r \in 0..MaxTotal} \cap
           {row \in Shards \X (0..MaxTotal) : row[2] < counts[row[1] + 1]}

\* C5: lookup(g) for g in [0, total_rows) returns (j, rel) with j the greatest
\* shard index whose start is <= g, starts[j] <= g < stops[j] and
\* rel = g - starts[j]; the shard returned is never empty; with row counts
\* [10, 0, 5] total_rows is 15 and lookup(10) is (third shard, 0).
C5_LookupCorrect ==
    /\ (Built /\ fragments = ScenarioCounts) => total_rows = 15
    /\ ipc = "looked" =>
         LET g == lk[1]
             j == lk[2]
             rel == lk[3]
         IN /\ j \in Shards
            /\ starts[j + 1] <= g
            /\ \A i \in Shards : starts[i + 1] <= g => i <= j
            /\ g < stops[j + 1]
            /\ rel = g - starts[j + 1]
            /\ counts[j + 1] > 0
            /\ (fragments = ScenarioCounts /\ g = 10) => (j = 2 /\ rel = 0)

C5_Witness ==
    /\ ipc = "looked"
    /\ fragments = ScenarioCounts
    /\ lk = <<10, 2, 0>>

\* C6: once the index is built over a non-empty shard list, starts[0] = 0,
\* stops[i] - starts[i] = counts[i] for every shard, stops[i] = starts[i+1]
\* for every consecutive pair, and total_rows is the sum of the counts and
\* the last stop.
C6_OffsetsContiguous ==
    (Built /\ fragments # <<>>) =>
        /\ counts = fragments
        /\ Len(starts) = Len(counts) /\ Len(stops) = Len(counts)
        /\ starts[1] = 0
        /\ \A i \in DOMAIN counts : stops[i] - starts[i] = counts[i]
        /\ \A i \in 1..(Len(counts) - 1) : stops[i] = starts[i + 1]
        /\ total_rows = SumSeq(counts)
        /\ total_rows = stops[Len(stops)]

C6_Witness ==
    /\ ipc = "ready"
    /\ counts = <<2, 0, 1>>
    /\ starts = <<0, 2, 2>>
    /\ stops = <<2, 2, 3>>
    /\ total_rows = 3

\* C7 as stated: the offsets of a built index are strictly increasing.
C7_StrictlyIncreasing ==
    Built =>
        \A i \in 1..(Len(counts) - 1) :
            starts[i] < starts[i + 1] /\ stops[i] < stops[i + 1]

\* C7 amended: the offsets of a built index are non-decreasing; two
\* consecutive starts differ exactly when the earlier shard has rows, two
\* consecutive stops exactly when the later shard has rows.
C7_NonDecreasing ==
    Built =>
        \A i \in 1..(Len(counts) - 1) :
            /\ starts[i] <= starts[i + 1]
            /\ stops[i] <= stops[i + 1]
            /\ (starts[i] < starts[i + 1]) <=> (counts[i] > 0)
            /\ (stops[i] < stops[i + 1]) <=> (counts[i + 1] > 0)

C7_Witness ==
    /\ ipc = "ready"
    /\ counts = <<1, 0, 2>>
    /\ starts[2] = starts[3]
    /\ stops[1] = stops[2]
    /\ stops[2] < stops[3]

\* The relative rows of the result mapped back through the shard offsets,
\* file after file in the order of the dict.
MappedBack(res) ==
    Concat([p \in DOMAIN res[1] |->
              [q \in DOMAIN res[2][p] |-> starts[res[1][p] + 1] + res[2][p][q]]])

C8_GroupedState ==
    ipc \in {"grouping", "grouped"} =>
        LET keys == result[1]
            lists == result[2]
            merged == SubSeq(gsorted, 1, gi)
        IN /\ ierr = "none"
           /\ gj \in Shards \/ (gj = 0 /\ gsorted = <<>>)
           \* the files of the dict are in ascending shard order, each once
           /\ \A p \in 1..(Len(keys) - 1) : keys[p] < keys[p + 1]
           /\ \A p \in DOMAIN keys :
                /\ keys[p] \in Shards
                /\ lists[p] # <<>>
                /\ counts[keys[p] + 1] > 0
                /\ \A q \in DOMAIN lists[p] :
                     lists[p][q] >= 0 /\ lists[p][q] < counts[keys[p] + 1]
           \* mapped back and concatenated: the indices merged so far
           /\ MappedBack(result) = merged
           /\ ipc = "grouped" =>
                /\ IsSortedAsc(MappedBack(result))
                /\ Len(MappedBack(result)) = Len(global_indices)
                /\ \A x \in Range(global_indices) \cup Range(MappedBack(result)) :
                     Occurrences(MappedBack(result), x)
                        = Occurrences(global_indices, x)

SampleEnded ==
    /\ ipc \in {"done", "raised"}
    /\ caller = "sampler" \/ ierr = "SampleTooLarge"

\* C9: get_random_sample(n) with n > total_rows raises without an RNG draw
\* and without reading a shard; with n = total_rows (every shard readable)
\* it returns every row of the dataset exactly once.
C9_SampleBounds ==
    SampleEnded =>
        /\ n_arg > total_rows =>
             /\ ipc = "raised" /\ ierr = "SampleTooLarge"
             /\ rng_calls = 0 /\ reads = <<>>
        /\ (n_arg = total_rows /\ ierr # "ShardReadError") =>
             /\ ipc = "done"
             /\ Len(output) = total_rows
             /\ \A row \in AllRows : Occurrences(output, row) = 1

\* The part of C9 the code keeps: the error for n > total_rows, and the
\* full dataset for n = total_rows when the dataset has at least one row.
C9_SampleBoundsNonEmpty ==
    SampleEnded =>
        /\ n_arg > total_rows =>
             /\ ipc = "raised" /\ ierr = "SampleTooLarge"
             /\ rng_calls = 0 /\ reads = <<>>
        /\ (n_arg = total_rows /\ total_rows >= 1 /\ ierr # "ShardReadError") =>
             /\ ipc = "done"
             /\ Len(output) = total_rows
             /\ \A row \in AllRows : Occurrences(output, row) = 1

\* C10: a shard that fails to read is skipped: a sampling call never ends
\* with the shard's read error.
C10_ShardFailureSkipped ==
    /\ ipc = "raised" => ierr # "ShardReadError"
    /\ rpc = "raised" => rerr # "ShardReadError"

(***************************************************************************)
(* Properties of FilteredSampler.get_random_sample, checked under          *)
(* SpecReservoir.                                                          *)
(***************************************************************************)
Min(a, b) == IF a <= b THEN a ELSE b

\* The rows of the batches b, in stream order.
StreamRows(b) ==
    Concat([k \in DOMAIN b |-> [i \in 1..b[k] |-> <<k, i - 1>>]])

\* Rows of the stream the loop has processed so far.
Processed ==
    IF bi = 0 THEN 0 ELSE SumSeq(SubSeq(batches, 1, bi - 1)) + ri

\* C3: with n >= 1, after every processed row the reservoir holds exactly
\* min(total_seen, n) rows, total_seen being the number of filtered rows
\* processed so far; it never holds more than n rows.
C3_ReservoirSize ==
    (rpc \in {"scan", "rows", "raised", "done"} /\ n_req >= 1) =>
        /\ total_seen = Processed
        /\ Len(reservoir) = Min(total_seen, n_req)
        /\ Len(reservoir) <= n_req
        /\ \A p \in DOMAIN reservoir :
             \E q \in 1..total_seen : reservoir[p] = StreamRows(batches)[q]

C3_Witness ==
    /\ rpc = "rows"
    /\ batches = <<2, 0, 3>>
    /\ n_req = 2
    /\ total_seen = 4
    /\ reservoir = <<  <<3, 1>>, <<1, 1>>  >>

\* For the rows `stream`, from the reservoir `res` after `seen` rows and over
\* the rows `rest` still to come: the number of sequences of replacement
\* draws after which stream[p] is in the reservoir, for every p, and at 0 the
\* number of all such sequences.  At each step all values of
\* ReplacementDraws are equally likely, so the share of the sequences that
\* keep a row is the probability that the row is retained.
RECURSIVE RunsKeeping(_, _, _, _, _)
RECURSIVE RunsKeepingOver(_, _, _, _, _, _)
RunsKeeping(stream, res, seen, rest, n) ==
    IF rest = <<>>
      THEN [p \in 0..Len(stream) |->
              IF p = 0 \/ stream[p] \in Range(res) THEN 1 ELSE 0]
    ELSE IF HasRoom(res, n)
      THEN RunsKeeping(stream, Append(res, Head(rest)), seen + 1, Tail(rest), n)
    ELSE RunsKeepingOver(ReplacementDraws(seen + 1), stream, res, seen, rest, n)

RunsKeepingOver(J, stream, res, seen, rest, n) ==
    IF J = {} THEN [p \in 0..Len(stream) |-> 0]
    ELSE LET j == CHOOSE x \in J : TRUE
             with == RunsKeeping(stream, Replace(res, j, Head(rest), n),
                                 seen + 1, Tail(rest), n)
             others == RunsKeepingOver(J \ {j}, stream, res, seen, rest, n)
         IN [p \in 0..Len(stream) |-> with[p] + others[p]]

\* C4: over a filtered stream of N >= k rows, every row is in the final
\* reservoir in the share k/N of the equally likely draw sequences, whatever
\* its position in the stream.
C4_UniformInclusion ==
    (rpc = "done" /\ n_req >= 1 /\ total_seen >= n_req
        /\ total_seen = SumSeq(batches)) =>
        LET stream == StreamRows(batches)
            runs == RunsKeeping(stream, <<>>, 0, stream, n_req)
        IN /\ runs[0] >= 1
           /\ sample_out = reservoir
           /\ \A p \in DOMAIN stream :
                runs[p] * total_seen = n_req * runs[0]

\* A scan of 5 rows with k = 2: each row is kept in 24 of the 60 draw
\* sequences; here the first row of the stream has been replaced.
C4_Witness ==
    /\ rpc = "done"
    /\ batches = <<2, 0, 3>>
    /\ n_req = 2
    /\ total_seen = 5
    /\ sample_out = <<  <<3, 0>>, <<3, 2>>  >>
    /\ LET stream == StreamRows(batches)
           runs == RunsKeeping(stream, <<>>, 0, stream, n_req)
       IN runs[0] = 60 /\ runs[1] = 24 /\ stream[1] = <<1, 0>>

(***************************************************************************)
(* Properties of the filter expression, checked under SpecExpr.            *)
(***************************************************************************)
\* What a leaf condition asks of a row: equality for a scalar, membership
\* for a list.
LeafMatches(l, row) ==
    IF l.val.kind = "scalar" THEN row[l.key] = l.val.v[1]
    ELSE \E p \in DOMAIN l.val.v : row[l.key] = l.val.v[p]

\* {"AND": {"Actor1Code": "USA", "OR": {"QuadClass": [1, 2]}}}
C1_Filter ==
    <<Entry("AND", Block(<<Entry("Actor1Code", Scalar(ActorCode("USA"))),
                           Entry("OR", Block(<<Entry("QuadClass",
                                                     List(<<1, 2>>))>>))>>))>>

\* C1: the filter C1_Filter compiles to a predicate that accepts a row
\* exactly when Actor1Code = "USA" and QuadClass is 1 or 2.
C1_CompilesToConjunction ==
    (fpc = "scanned" /\ filter_dict = C1_Filter) =>
        matched = {row \in Rows : /\ row["Actor1Code"] = ActorCode("USA")
                                  /\ row["QuadClass"] \in {1, 2}}

\* What the code compiles C1_Filter to: Actor1Code = "USA" or QuadClass in
\* {1, 2}.
C1_CompilesToDisjunction ==
    (fpc = "scanned" /\ filter_dict = C1_Filter) =>
        matched = {row \in Rows : \/ row["Actor1Code"] = ActorCode("USA")
                                  \/ row["QuadClass"] \in {1, 2}}

\* A filter {K: {c1: v1, c2: v2}} on two distinct declared columns.
IsTwoLeafBlock(f) ==
    /\ Len(f) = 1
    /\ f[1].key \in BlockKeys
    /\ f[1].val.kind = "block"
    /\ Len(f[1].val.sub) = 2
    /\ \A p \in 1..2 : /\ f[1].val.sub[p].key \in GdeltColumns
                       /\ f[1].val.sub[p].val.kind \in {"scalar", "list"}
    /\ f[1].val.sub[1].key # f[1].val.sub[2].key

\* C2: the children of a block are combined with the kind its key names:
\* {"OR": {c1: v1, c2: v2}} accepts the rows where c1 matches v1 or c2
\* matches v2, {"AND": {c1: v1, c2: v2}} those where both match.
C2_BlockKeyCombinesChildren ==
    (fpc = "scanned" /\ IsTwoLeafBlock(filter_dict)) =>
        LET l1 == filter_dict[1].val.sub[1]
            l2 == filter_dict[1].val.sub[2]
        IN matched =
             IF filter_dict[1].key = "OR"
               THEN {row \in Rows : LeafMatches(l1, row) \/ LeafMatches(l2, row)}
               ELSE {row \in Rows : LeafMatches(l1, row) /\ LeafMatches(l2, row)}

\* What the code does with such a block: both children must match, whatever
\* the key.
C2_ChildrenAlwaysConjoined ==
    (fpc = "scanned" /\ IsTwoLeafBlock(filter_dict)) =>
        LET l1 == filter_dict[1].val.sub[1]
            l2 == filter_dict[1].val.sub[2]
        IN matched =
             {row \in Rows : LeafMatches(l1, row) /\ LeafMatches(l2, row)}

(***************************************************************************)
(* Properties of FilteredSampler's construction, scan columns and          *)
(* conditions, checked under SpecExpr.                                     *)
(***************************************************************************)
\* The leaf entries of a filter block at any depth under AND / OR blocks.
RECURSIVE Leaves(_)
Leaves(block) ==
    UNION {IF block[p].key \in BlockKeys
             THEN IF block[p].val.kind = "block"
                    THEN Leaves(block[p].val.sub) ELSE {}
             ELSE {block[p]} : p \in DOMAIN block}

\* Some leaf is an operator object whose op is not one of FilterType.
HasUnknownOp(block) ==
    \E l \in Leaves(block) :
        /\ l.val.kind = "block"
        /\ Has(l.val.sub, "op")
        /\ Get(l.val.sub, "op").s \notin FilterType

\* C11: a filter spec with an operator object whose op is outside FilterType
\* is rejected when the sampler is constructed: once __init__ has run the
\* constructor has raised, no dataset has been opened and no sampling call
\* has started.
C11_UnknownOperatorRejectedAtConstruction ==
    (HasUnknownOp(filter_dict) /\ fpc \notin {"cmd", "new"}) =>
        (fpc = "raised" /\ ~opened /\ api = "none")

\* Every AND / OR key of the spec, at any depth, holds a dict.
RECURSIVE WellFormed(_)
WellFormed(block) ==
    \A p \in DOMAIN block :
        block[p].key \in BlockKeys =>
            /\ block[p].val.kind = "block"
            /\ WellFormed(block[p].val.sub)

HasUndeclaredLeaf(block) == \E l \in Leaves(block) : l.key \notin GdeltColumns

\* __init__ raised: the sampler does not exist, no dataset was opened and no
\* sampling call (the only place that scans and draws) has started.
Rejected == fpc = "raised" /\ ~opened /\ api = "none" /\ matched = {}

\* __init__ returned.
Accepted == fpc \notin {"cmd", "new"} /\ (fpc = "raised" => opened)

\* C12: once __init__ has run, a spec with a leaf key, at any depth under
\* AND / OR blocks, that is not a declared column has been rejected with no
\* dataset opened and no sampling call started; a spec whose leaf keys are all
\* declared columns (its AND / OR keys holding dicts, the requested columns
\* declared) has been accepted.
C12_UndeclaredLeafRejected ==
    fpc \notin {"cmd", "new"} =>
        /\ HasUndeclaredLeaf(filter_dict) => Rejected
        /\ (/\ WellFormed(filter_dict)
            /\ ~HasUndeclaredLeaf(filter_dict)
            /\ columns \subseteq GdeltColumns) => Accepted

\* The undeclared column two blocks down has been rejected.
C12_Witness ==
    /\ filter_dict =
         <<Entry("AND", Block(<<Entry("OR", Block(<<UndeclaredLeaf>>))>>))>>
    /\ columns = GdeltColumns
    /\ Rejected

HitShards ==
    {j \in Shards : \E p \in DOMAIN global_indices :
        starts[j + 1] <= global_indices[p] /\ global_indices[p] < stops[j + 1]}

\* The global index of each output row.
OutputGlobals == [p \in DOMAIN output |-> starts[output[p][1] + 1] + output[p][2]]

\* C19: get_random_sample(n) reads only shards whose [start, stop) holds a
\* drawn global index, each at most once and in ascending shard order; when
\* it returns it has read every such shard, and the returned rows are the
\* drawn rows in ascending global-index order, whatever the draw order was.
C19_ReadsAndOrder ==
    (caller = "sampler" /\ ipc \in {"loading", "done", "raised"}) =>
        /\ Range(reads) \subseteq HitShards
        /\ \A p \in 1..(Len(reads) - 1) : reads[p] < reads[p + 1]
        /\ ipc = "done" =>
             /\ Range(reads) = HitShards
             /\ Len(output) = Len(global_indices)
             /\ Range(OutputGlobals) = Range(global_indices)
             /\ \A p \in 1..(Len(output) - 1) :
                  OutputGlobals[p] < OutputGlobals[p + 1]

\* Three shards, one of them without a drawn row and not read; the draw
\* order was descending and the output is ascending.
C19_Witness ==
    /\ caller = "sampler" /\ ipc = "done"
    /\ Len(counts) = 3
    /\ Len(reads) = 2
    /\ Len(global_indices) = 3
    /\ global_indices[1] > global_indices[2]
    /\ global_indices[2] > global_indices[3]
    /\ OutputGlobals = NpSort(global_indices)

\* C16: the table get_random_sample returns has exactly the columns of the
\* requested projection (self.columns: the requested set, or every declared
\* column when none was requested); a column named only in the filter spec
\* is not in it.
C16_OutputIsProjection ==
    (fpc = "returned" /\ api = "random" /\ matched # {}) => out_cols = columns

\* What the code returns instead: the projection together with the filter's
\* top-level column keys.
C16_OutputIsScanColumns ==
    (fpc = "returned" /\ api = "random" /\ matched # {}) =>
        out_cols = columns \cup TopLevelKeys(filter_dict)

\* The sampling command was given a filter with one condition on one column.
SingleLeafRequest ==
    /\ via = "cli"
    /\ Len(request) = 1
    /\ request[1].key \in GdeltColumns

\* C17: in a filter of the request grammar, as it reaches FilteredSampler
\* from the sampling command, a 2-element array [lo, hi] selects the rows
\* with lo <= value <= hi, an array of any other length selects the rows
\* whose value is one of its elements, and a scalar selects the rows whose
\* value equals it.
C17_ConditionShapes ==
    (SingleLeafRequest /\ fpc = "scanned") =>
        LET c == request[1].key
            cond == request[1].val
        IN /\ (cond.kind = "array" /\ Len(cond.v) = 2) =>
                matched = {row \in Rows :
                             cond.v[1] <= row[c] /\ row[c] <= cond.v[2]}
           /\ (cond.kind = "array" /\ Len(cond.v) # 2) =>
                matched = {row \in Rows : row[c] \in Range(cond.v)}
           /\ cond.kind = "scalar" =>
                matched = {row \in Rows : row[c] = cond.v[1]}

\* What the code does: json.loads turns every array into a list, and a list
\* of any length, two included, selects by membership.
C17_ArraysSelectByMembership ==
    (SingleLeafRequest /\ fpc = "scanned" /\ request[1].val.kind = "array") =>
        matched = {row \in Rows :
                     row[request[1].key] \in Range(request[1].val.v)}

\* Only a Python tuple of two elements, which no JSON text parses to,
\* selects the inclusive range.
C17_TuplesSelectByRange ==
    (/\ via = "api" /\ fpc = "scanned" /\ Len(filter_dict) = 1
     /\ filter_dict[1].val.kind = "tuple") =>
        /\ Len(filter_dict[1].val.v) = 2
        /\ matched = {row \in Rows :
                        /\ filter_dict[1].val.v[1] <= row[filter_dict[1].key]
                        /\ row[filter_dict[1].key] <= filter_dict[1].val.v[2]}

\* The sampling call has compiled the filter of an accepted spec.
Compiled == fpc \in {"compiled", "scanned", "returned"}

\* C20: every column a leaf of the compiled filter expression refers to, at
\* any nesting depth, is in the column set (and schema) of the dataset scan
\* that evaluates the filter, in get_random_sample, get_stratified_sample and
\* filter_dataset.
C20_FilterColumnsScanned ==
    Compiled => ExprColumns(expr) \subseteq needed

\* What the code ensures: the scan has the requested columns and the columns
\* of the filter's top-level leaves; and a scan that starts has them all.
C20_TopLevelColumnsScanned ==
    /\ fpc \in {"opened", "compiled", "scanned", "returned"} =>
         columns \cup TopLevelKeys(filter_dict) \subseteq needed
    /\ fpc \in {"scanned", "returned"} => ExprColumns(expr) \subseteq needed

(***************************************************************************)
(* Properties of FilteredSampler.get_stratified_sample, checked under      *)
(* SpecStratified.                                                         *)
(***************************************************************************)
\* The group a stratification value belongs to: every missing value (NaN or
\* None) belongs to the one null group.
GroupOf(value) == IF value \in {"NaN", "None"} THEN "None" ELSE value

\* The rows of the scan in stream order, and the value each carries.
StratRows ==
    Concat([b \in DOMAIN sbatches |->
              [i \in DOMAIN sbatches[b] |-> <<b, i - 1>>]])

StratValue(row) == sbatches[row[1]][row[2] + 1]

\* Rows processed so far.
StratProcessed ==
    IF sbi = 0 THEN 0
    ELSE Len(Concat(SubSeq(sbatches, 1, sbi - 1))) + sri

\* The processed rows of group g.
SeenOf(g) ==
    {StratRows[p] : p \in {q \in 1..StratProcessed :
                             GroupOf(StratValue(StratRows[q])) = g}}

C15_GroupState ==
    (spc \in {"scan", "rows", "done"} /\ n_per_group >= 1) =>
        \* the two dicts have the same keys, each once: the groups of the
        \* rows seen so far, the null group among them
        /\ Len(reservoirs) = Len(group_counts)
        /\ \A p \in DOMAIN reservoirs : reservoirs[p].key = group_counts[p].key
        /\ \A p, q \in DOMAIN reservoirs :
             reservoirs[p].key = reservoirs[q].key => p = q
        /\ {reservoirs[p].key : p \in DOMAIN reservoirs} =
             {GroupOf(StratValue(StratRows[q])) : q \in 1..StratProcessed}
        \* every row is counted in its own group, and only there
        /\ \A p \in DOMAIN group_counts :
             group_counts[p].val = Cardinality(SeenOf(group_counts[p].key))
        /\ SumSeq([p \in DOMAIN group_counts |-> group_counts[p].val]) =
             StratProcessed
        \* each reservoir holds min(seen, k) different rows of its group
        /\ \A p \in DOMAIN reservoirs :
             LET r == reservoirs[p].val
             IN /\ Len(r) = Min(group_counts[p].val, n_per_group)
                /\ Range(r) \subseteq SeenOf(reservoirs[p].key)
                /\ Cardinality(Range(r)) = Len(r)
        \* the output is the reservoirs, at most k rows per observed group
        /\ spc = "done" =>
             /\ strat_out = Concat([p \in DOMAIN reservoirs |-> reservoirs[p].val])
             /\ Len(strat_out) <= Len(reservoirs) * n_per_group

\* Processing a row leaves every other group's reservoir and count alone.
C15_OtherGroupsUntouched ==
    (spc = "rows" /\ sri' = sri + 1) =>
        \A p \in DOMAIN reservoirs :
            reservoirs[p].key # GroupOf(sbatches[sbi][sri + 1]) =>
                /\ reservoirs'[p] = reservoirs[p]
                /\ group_counts'[p] = group_counts[p]

\* C15: in get_stratified_sample(col, k), k >= 1, after every processed row:
\* each filtered row is counted in exactly one group; rows with a NaN or None
\* group value are collected in the one null group; a group exists only once
\* a row with its key was seen; each group's reservoir holds exactly
\* min(rows seen for the group, k) rows, all with the group's key; processing
\* a row changes no other group's reservoir or count; and the output never
\* has more than (number of observed groups) * k rows.
C15_StratifiedReservoirs ==
    []C15_GroupState /\ [][C15_OtherGroupsUntouched]_vars

\* k = 1: a NaN row and then a None row fell in the null group, whose
\* reservoir was replaced by the second; a later row opened group "A".
C15_Witness ==
    /\ spc = "done"
    /\ n_per_group = 1
    /\ sbatches = <<  <<"NaN">>, <<"None", "A">>  >>
    /\ group_counts = <<Entry("None", 2), Entry("A", 1)>>
    /\ reservoirs = <<Entry("None", <<  <<2, 0>>  >>), Entry("A", <<  <<2, 1>>  >>)>>
    /\ sdraws = 1
    /\ strat_out = <<  <<2, 0>>, <<2, 1>>  >>

(***************************************************************************)
(* Properties of DailySampler.get_daily_samples, checked under SpecDaily   *)
(* (one run) and SpecDailyRerun (two runs with the same seed).             *)
(***************************************************************************)
\* The rows of shard s whose Day is d.
RowsOfDay(s, d) ==
    {<<s, p - 1>> : p \in {q \in DOMAIN day_shards[s].days :
                             day_shards[s].days[q] = d}}

\* The output rows taken from shard s and day d.
TakenOfDay(s, d) == Range(daily_out) \cap RowsOfDay(s, d)

\* C18: when get_daily_samples(perDay), perDay >= 1, returns, its output
\* holds, for every shard with a Day column and every day d in it, exactly
\* min(perDay, rows of day d in that shard) pairwise distinct rows of that
\* shard and day, and nothing else; the cap is per shard and per day, so the
\* rows of a day number the sum of the shards' capped counts.
C18_PerShardPerDayCap ==
    (dpc = "done" /\ samples_per_day >= 1) =>
        /\ Cardinality(Range(daily_out)) = Len(daily_out)
        /\ \A s \in DOMAIN day_shards : \A d \in Days :
             Cardinality(TakenOfDay(s, d)) =
                 IF day_shards[s].has_day
                   THEN Min(samples_per_day, Cardinality(RowsOfDay(s, d)))
                   ELSE 0
        /\ Range(daily_out) \subseteq
             UNION {RowsOfDay(s, d) : s \in DOMAIN day_shards, d \in Days}
        /\ \A d \in Days :
             Cardinality(UNION {TakenOfDay(s, d) : s \in DOMAIN day_shards}) =
                 SumSeq([s \in DOMAIN day_shards |->
                           IF day_shards[s].has_day
                             THEN Min(samples_per_day,
                                      Cardinality(RowsOfDay(s, d)))
                             ELSE 0])

\* perDay = 1, day 1 has two rows in the first shard and one in the second:
\* one row of each shard is in the output, two rows for the day.
C18_Witness ==
    /\ dpc = "done"
    /\ samples_per_day = 1
    /\ day_shards = <<Shard(TRUE, <<1, 1>>), Shard(TRUE, <<1>>)>>
    /\ glob_order = <<1, 2>>
    /\ daily_out = <<  <<1, 1>>, <<2, 0>>  >>

\* Both runs of the program have returned.
BothRunsReturned == run = 2 /\ dpc = "done"

\* C13: two separate runs of the same sampler with the same seed over the
\* same unmodified dataset and the same request make the same sequence of
\* RNG draws and return the same rows in the same order.
C13_SameSeedSameOutput ==
    BothRunsReturned => (rng_used = rng_log /\ daily_out = first_out)

\* What the seed does fix: over a folder with a single file, where glob has
\* one order only, the second run repeats the draws and the output of the
\* first.
C13_SingleFileSameOutput ==
    (BothRunsReturned /\ Len(day_shards) <= 1) =>
        (rng_used = rng_log /\ daily_out = first_out)

(***************************************************************************)
(* Key order of a filter block, checked under SpecExpr.                    *)
(***************************************************************************)
\* The sequences that hold the elements of s, each once, in any order.
KeyOrders(s) ==
    {[p \in DOMAIN s |-> s[o[p]]] :
        o \in {f \in [DOMAIN s -> DOMAIN s] :
                 \A a, b \in DOMAIN s : f[a] = f[b] => a = b}}

\* The blocks with the keys of `block` in any order, at every depth.
RECURSIVE Orderings(_)
RECURSIVE OrderingsOfEach(_)
OrderingsOfEach(block) ==
    IF block = <<>> THEN {<<>>}
    ELSE LET e == Head(block)
             heads == IF e.val.kind = "block" /\ e.key \in BlockKeys
                        THEN {Entry(e.key, Block(b)) : b \in Orderings(e.val.sub)}
                        ELSE {e}
         IN {<<h>> \o rest : h \in heads, rest \in OrderingsOfEach(Tail(block))}

Orderings(block) == UNION {KeyOrders(b) : b \in OrderingsOfEach(block)}

\* Some dict of the spec holds both a leaf condition and an AND / OR
\* sub-block.
RECURSIVE MixesLeafAndBlock(_)
MixesLeafAndBlock(block) ==
    \/ /\ \E p \in DOMAIN block : block[p].key \in BlockKeys
       /\ \E p \in DOMAIN block : block[p].key \notin BlockKeys
    \/ \E p \in DOMAIN block :
         /\ block[p].key \in BlockKeys
         /\ block[p].val.kind = "block"
         /\ MixesLeafAndBlock(block[p].val.sub)

\* The rows the predicate compiled from `block` accepts.
Accepts(block) == {row \in Rows : Eval(BuildExpression(block), row)}

\* C21: the predicate _build_expression compiles from a block that mixes
\* leaf conditions with AND / OR sub-blocks does not depend on the order of
\* the block's keys: every ordering of the same keys accepts exactly the
\* rows the scan let through.
C21_KeyOrderIndependent ==
    (fpc = "scanned" /\ MixesLeafAndBlock(filter_dict)) =>
        \A b \in Orderings(filter_dict) : Accepts(b) = matched

\* What the code keeps: the order of the keys does not matter in a spec
\* without an OR key.
RECURSIVE HasOrKey(_)
HasOrKey(block) ==
    \E p \in DOMAIN block :
        \/ block[p].key = "OR"
        \/ /\ block[p].key \in BlockKeys
           /\ block[p].val.kind = "block"
           /\ HasOrKey(block[p].val.sub)

C21_OrderIndependentWithoutOr ==
    (fpc = "scanned" /\ ~HasOrKey(filter_dict)) =>
        \A b \in Orderings(filter_dict) : Accepts(b) = matched

(***************************************************************************)
(* Sample sizes of IndexedSampler.get_random_sample, checked under         *)
(* SpecIndex.                                                              *)
(***************************************************************************)
\* get_random_sample returned n rows that are n different rows of the
\* dataset.
ReturnedDistinctRows ==
    /\ ipc = "done"
    /\ Len(output) = n_arg
    /\ Range(output) \subseteq AllRows
    /\ Cardinality(Range(OutputGlobals)) = n_arg

\* C22: for every n with 0 <= n <= total_rows, get_random_sample(n) (every
\* shard it reads being readable) completes without error and returns
\* exactly n rows, of n pairwise distinct global row indices.
C22_SampleOfEverySize ==
    (SampleEnded /\ n_arg <= total_rows /\ ierr # "ShardReadError") =>
        ReturnedDistinctRows

\* What the code does: the same for 1 <= n <= total_rows; with n = 0 no
\* shard is read and the concatenation of no frames raises.
C22_SampleOfPositiveSize ==
    (SampleEnded /\ n_arg <= total_rows /\ ierr # "ShardReadError") =>
        IF n_arg >= 1
          THEN ReturnedDistinctRows
          ELSE ipc = "raised" /\ ierr = "NoObjectsToConcatenate" /\ reads = <<>>

(***************************************************************************)
(* Properties of download_gdelt_files, checked under SpecScraper and       *)
(* SpecScraperLive.                                                        *)
(***************************************************************************)
\* The URL the attempts are being made for, if any.
Attempting(filename) == wpc = "attempt" /\ urls[ui + 1] = filename

\* C23: a file present at its local path was written by an attempt that
\* completed: once the attempts for a URL are over, a file that was opened
\* and not written to its end is not left in the directory, so every URL a
\* run skips has a file that was downloaded whole.
C23_FilesAreWholeDownloads ==
    /\ \A f \in Filenames : disk[f] = "partial" => Attempting(f)
    /\ \A p \in DOMAIN events :
         events[p].what = "skip" => disk[urls[events[p].url]] = "complete"

\* What the code keeps: a file is never left behind by attempts that failed
\* before the file was opened, and a whole file stays whole.
C23_WholeFilesStay ==
    [][\A f \in Filenames :
         /\ disk[f] = "complete" => disk'[f] = "complete"
         /\ (disk[f] = "absent" /\ disk'[f] # "absent") => Attempting(f)]_vars

\* The places of `events` that belong to the URL at position p.
EventsOf(p, what) ==
    {i \in DOMAIN events : events[i].url = p /\ events[i].what = what}

\* The URLs of the list whose `retries` attempts all failed.
Exhausted ==
    {p \in DOMAIN urls :
        Cardinality(EventsOf(p, "fail")) = retries /\ EventsOf(p, "ok") = {}}

\* The file names of the exhausted URLs, in the order of the list.
RECURSIVE ExhaustedNames(_)
ExhaustedNames(p) ==
    IF p > Len(urls) THEN <<>>
    ELSE (IF p \in Exhausted THEN <<urls[p]>> ELSE <<>>) \o ExhaustedNames(p + 1)

C24_Counts ==
    (wpc \in {"loop", "attempt", "done"} /\ retries >= 1) =>
        \* a skipped URL is never attempted; no URL is attempted more than
        \* `retries` times, nor again after a success
        /\ \A p \in DOMAIN urls :
             /\ Cardinality(EventsOf(p, "skip")) <= 1
             /\ EventsOf(p, "skip") # {} =>
                  EventsOf(p, "ok") \cup EventsOf(p, "fail") = {}
             /\ Cardinality(EventsOf(p, "ok") \cup EventsOf(p, "fail")) <= retries
             /\ Cardinality(EventsOf(p, "ok")) <= 1
             /\ \A i \in EventsOf(p, "ok") : \A j \in EventsOf(p, "fail") : j < i
        \* the counters count the events; `failed` has each exhausted URL once
        /\ success = Cardinality({i \in DOMAIN events : events[i].what = "ok"})
        /\ skipped = Cardinality({i \in DOMAIN events : events[i].what = "skip"})
        /\ failed = ExhaustedNames(1)
        \* at the return every URL is in exactly one of the three
        /\ wpc = "done" =>
             /\ \A p \in DOMAIN urls :
                  Cardinality(EventsOf(p, "skip")) + Cardinality(EventsOf(p, "ok"))
                      + (IF p \in Exhausted THEN 1 ELSE 0) = 1
             /\ success + skipped + Len(failed) = Len(urls)

\* A URL is skipped exactly when its file exists as the loop reaches it, and
\* only then no attempt is started.
C24_SkipIffExists ==
    (wpc = "loop" /\ ui < Len(urls) /\ retries >= 1) =>
        IF Exists(disk, urls[ui + 1])
          THEN /\ wpc' = "loop" /\ ui' = ui + 1 /\ skipped' = skipped + 1
               /\ disk' = disk
          ELSE wpc' = "attempt" /\ skipped' = skipped

\* C24: with retries >= 1, download_gdelt_files makes no attempt for a URL
\* whose local file exists and at most `retries` attempts for any other URL,
\* stops attempting a URL after its first successful attempt, records a file
\* name in `failed` exactly once and only when all `retries` attempts failed,
\* and every call returns, with success + skipped + len(failed) equal to the
\* number of URLs.
C24_AttemptsAndCounts ==
    /\ []C24_Counts
    /\ [][C24_SkipIffExists]_vars
    /\ (wpc = "call" ~> wpc = "done")

\* retries = 2: the first URL was skipped, the second failed twice, and the
\* third, which ends with the same file name, succeeded at its second
\* attempt.
C24_Witness ==
    /\ wpc = "done"
    /\ retries = 2
    /\ urls = <<"a.zip", "b.zip", "b.zip">>
    /\ events = <<Event(1, "skip"), Event(2, "fail"), Event(2, "fail"),
                  Event(3, "fail"), Event(3, "ok")>>
    /\ success = 1 /\ skipped = 1 /\ failed = <<"b.zip">>

====
